---- MODULE Spec2Model ----
(***************************************************************************)
(* Model of ocr-agent: the SQLite task queue (queue_store.py) and the      *)
(* enqueue / run / reset commands that drive it (cli.py).                  *)
(*                                                                         *)
(* The tasks table is a set of rows keyed by task_id; every SELECT that    *)
(* has an ORDER BY is modelled by sorting that set.  A nullable column     *)
(* holds NULL (the empty tuple) or a one-element tuple with its value.     *)
(***************************************************************************)
EXTENDS Integers, Sequences, FiniteSets, TLC

\* ------------------------------------------------------------------ bounds
\* Largest task_id the model lets the store assign.
MaxTaskId == 3
\* Largest page count a PDF has.
MaxPdfPages == 2
\* Longest list of paths given to one enqueue.
MaxPaths == 2
\* Unix timestamps run over 1..MaxTime.
MaxTime == 1
\* Longest text of arbitrary tokens given to the delimiter conversion.
MaxTextLen == 4
\* Most lines of a text made of whole lines given to the conversion.
MaxLines == 4

\* --------------------------------------------------------------- constants
TASK_STATUS_PENDING == "pending"
TASK_STATUS_RUNNING == "running"
TASK_STATUS_COMPLETED == "completed"
TASK_STATUS_FAILED == "failed"

TASK_KIND_IMAGE == "image"
TASK_KIND_PDF_PAGE == "pdf_page"

SUPPORTED_IMAGE_FILE_EXTENSIONS == {".png", ".jpg", ".jpeg", ".webp", ".bmp", ".tif", ".tiff"}
SUPPORTED_PDF_FILE_EXTENSIONS == {".pdf"}

\* A path is its stem and its (lower-cased) suffix.
ImagePaths == {[stem |-> "a", suffix |-> ".png"], [stem |-> "b", suffix |-> ".jpg"]}
PdfPaths == {[stem |-> "c", suffix |-> ".pdf"]}
Paths == ImagePaths \cup PdfPaths
\* The files of a directory that holds a second PDF.
TwoPdfPaths == Paths \cup {[stem |-> "d", suffix |-> ".pdf"]}
Times == 1..MaxTime

NULL == <<>>
Some(v) == <<v>>

Statuses == {TASK_STATUS_PENDING, TASK_STATUS_RUNNING, TASK_STATUS_COMPLETED, TASK_STATUS_FAILED}

\* ------------------------------------------------------------- pure helpers
Max2(a, b) == IF a >= b THEN a ELSE b

SetMax(S) == IF S = {} THEN 0 ELSE CHOOSE x \in S : \A y \in S : y <= x

RowIds(rows) == {r.task_id : r \in rows}

\* Sequences over S of length lo..hi.
SeqsOf(S, lo, hi) == UNION {[1..n -> S] : n \in lo..hi}

\* Is the sequence of integers strictly increasing?
StrictlyIncreasing(s) == \A i \in 1..Len(s) : \A j \in 1..Len(s) : i < j => s[i] < s[j]

\* ORDER BY task_id DESC: the wrong sort direction.
OrderByTaskIdDesc(rows) ==
  LET n == Cardinality(rows)
      Rank(r) == Cardinality({q \in rows : q.task_id >= r.task_id})
  IN [i \in 1..n |-> CHOOSE r \in rows : Rank(r) = i]

\* ORDER BY task_id ASC over a set of rows (task_id is the primary key, so the
\* rank of a row is the number of rows whose id is not larger).
OrderByTaskIdAsc(rows) ==
  LET n == Cardinality(rows)
      Rank(r) == Cardinality({q \in rows : q.task_id <= r.task_id})
  IN [i \in 1..n |-> CHOOSE r \in rows : Rank(r) = i]

\* --------------------------------------------------------------- the store
\* A store db is [table |-> BOOLEAN, rows |-> set of rows, seq |-> Nat]:
\* whether the tasks table exists, its rows, and sqlite_sequence's entry for
\* it (the largest task_id AUTOINCREMENT has ever assigned).

\* A freshly inserted row: the four INSERT statements name six columns, the
\* other two (output_markdown_path, error_message) default to NULL.
NewRow(id, kind, path, page, total, created) ==
  [task_id |-> id,
   task_kind |-> kind,
   source_path |-> path,
   pdf_page_index |-> page,
   pdf_total_pages |-> total,
   created_unix_timestamp_seconds |-> created,
   status |-> TASK_STATUS_PENDING,
   output_markdown_path |-> NULL,
   error_message |-> NULL]

\* INTEGER PRIMARY KEY without AUTOINCREMENT: one more than the largest rowid
\* now in the table, so ids of deleted rows come back.
NextTaskIdNoAutoincrement(db) == SetMax(RowIds(db.rows)) + 1

\* INTEGER PRIMARY KEY AUTOINCREMENT: one more than the largest rowid that
\* has ever been in the table.
NextTaskId(db) == Max2(db.seq, SetMax(RowIds(db.rows))) + 1

InsertTask(db, kind, path, page, total, created) ==
  LET id == NextTaskId(db)
  IN [db EXCEPT !.rows = @ \cup {NewRow(id, kind, path, page, total, created)},
                !.seq = id]

\* CREATE TABLE that drops what is there: a restart would lose the tasks and
\* the id sequence.
initialize_recreate(db) == [table |-> TRUE, rows |-> {}, seq |-> 0]

\* QueueStore.initialize: CREATE TABLE IF NOT EXISTS.
initialize(db) ==
  IF db.table THEN db ELSE [table |-> TRUE, rows |-> {}, seq |-> 0]

\* Inserts a path only when no row has it as source_path.
RECURSIVE InsertImagesOncePerPath(_, _, _)
InsertImagesOncePerPath(db, image_file_paths, created) ==
  IF image_file_paths = <<>> THEN db
  ELSE InsertImagesOncePerPath(
         IF \E r \in db.rows : r.source_path = Head(image_file_paths)
         THEN db
         ELSE InsertTask(db, TASK_KIND_IMAGE, Head(image_file_paths), NULL, NULL,
                         created),
         Tail(image_file_paths), created)

\* The loop of enqueue_image_tasks: one INSERT per path, in the given order.
RECURSIVE InsertImages(_, _, _)
InsertImages(db, image_file_paths, created) ==
  IF image_file_paths = <<>> THEN db
  ELSE InsertImages(
         InsertTask(db, TASK_KIND_IMAGE, Head(image_file_paths), NULL, NULL, created),
         Tail(image_file_paths), created)

\* Inserts the paths last to first.
RECURSIVE InsertImagesReversed(_, _, _)
InsertImagesReversed(db, image_file_paths, created) ==
  IF image_file_paths = <<>> THEN db
  ELSE InsertTask(InsertImagesReversed(db, Tail(image_file_paths), created),
                  TASK_KIND_IMAGE, Head(image_file_paths), NULL, NULL, created)

\* QueueStore.enqueue_image_tasks: the store after the call and the returned
\* tasks_added_count.
enqueue_image_tasks(db, image_file_paths, created) ==
  [db |-> InsertImages(db, image_file_paths, created),
   ret |-> Len(image_file_paths)]

\* The loop with page indexes that count from one.
RECURSIVE InsertPdfPagesOneBased(_, _, _, _, _)
InsertPdfPagesOneBased(db, pdf_file_path, from, pdf_total_pages, created) ==
  IF from >= pdf_total_pages THEN db
  ELSE InsertPdfPagesOneBased(
         InsertTask(db, TASK_KIND_PDF_PAGE, pdf_file_path, Some(from + 1),
                    Some(pdf_total_pages), created),
         pdf_file_path, from + 1, pdf_total_pages, created)

\* The loop of enqueue_pdf_page_tasks: for pdf_page_index in range(from, total).
RECURSIVE InsertPdfPages(_, _, _, _, _)
InsertPdfPages(db, pdf_file_path, from, pdf_total_pages, created) ==
  IF from >= pdf_total_pages THEN db
  ELSE InsertPdfPages(
         InsertTask(db, TASK_KIND_PDF_PAGE, pdf_file_path, Some(from),
                    Some(pdf_total_pages), created),
         pdf_file_path, from + 1, pdf_total_pages, created)

\* enqueue_pdf_page_tasks with the guard on pdf_total_pages <= 0 replaced by
\* a placeholder row for a PDF without pages.
enqueue_pdf_page_tasks_placeholder(db, pdf_file_path, pdf_total_pages, created) ==
  IF pdf_total_pages <= 0
  THEN [db |-> InsertTask(db, TASK_KIND_PDF_PAGE, pdf_file_path, Some(0), Some(0),
                          created),
        ret |-> 0]
  ELSE [db |-> InsertPdfPages(db, pdf_file_path, 0, pdf_total_pages, created),
        ret |-> pdf_total_pages]

\* QueueStore.enqueue_pdf_page_tasks.
enqueue_pdf_page_tasks(db, pdf_file_path, pdf_total_pages, created) ==
  IF pdf_total_pages <= 0
  THEN [db |-> db, ret |-> 0]
  ELSE [db |-> InsertPdfPages(db, pdf_file_path, 0, pdf_total_pages, created),
        ret |-> pdf_total_pages]

\* fetch without the WHERE status = 'pending'.
fetch_next_task_any_status(db) ==
  LET ordered == OrderByTaskIdAsc(db.rows)
  IN IF ordered = <<>> THEN NULL ELSE Some(ordered[1])

\* fetch with ORDER BY task_id DESC.
fetch_last_pending_task(db) ==
  LET ordered == OrderByTaskIdDesc({r \in db.rows : r.status = TASK_STATUS_PENDING})
  IN IF ordered = <<>> THEN NULL ELSE Some(ordered[1])

\* fetch with WHERE status IN ('pending', 'running').
fetch_next_unfinished_task(db) ==
  LET ordered == OrderByTaskIdAsc({r \in db.rows :
                    r.status \in {TASK_STATUS_PENDING, TASK_STATUS_RUNNING}})
  IN IF ordered = <<>> THEN NULL ELSE Some(ordered[1])

\* QueueStore.fetch_next_pending_task: WHERE status = 'pending' ORDER BY
\* task_id ASC LIMIT 1; fetchone() gives None (NULL here) when there is no row.
fetch_next_pending_task(db) ==
  LET ordered == OrderByTaskIdAsc({r \in db.rows : r.status = TASK_STATUS_PENDING})
  IN IF ordered = <<>> THEN NULL ELSE Some(ordered[1])

\* INSERT OR REPLACE in place of the UPDATE: a task_id that is not in the
\* table gets a row.
UpsertWhereTaskId(db, task_id, upd) ==
  LET base == NewRow(task_id, TASK_KIND_IMAGE, [stem |-> "a", suffix |-> ".png"],
                     NULL, NULL, 1)
      held == {r \in db.rows : r.task_id = task_id}
  IN [db EXCEPT !.rows =
        {[f \in DOMAIN r |-> IF f \in DOMAIN upd THEN upd[f] ELSE r[f]] :
           r \in IF held = {} THEN {base} ELSE held}
          \cup (@ \ held)]

\* UPDATE tasks SET <fields of upd>, without the WHERE clause.
UpdateEveryTask(db, task_id, upd) ==
  [db EXCEPT !.rows =
     {[f \in DOMAIN r |-> IF f \in DOMAIN upd THEN upd[f] ELSE r[f]] : r \in @}]

\* UPDATE tasks SET <fields of upd> WHERE task_id = ?
UpdateWhereTaskId(db, task_id, upd) ==
  [db EXCEPT !.rows =
     {IF r.task_id = task_id
      THEN [f \in DOMAIN r |-> IF f \in DOMAIN upd THEN upd[f] ELSE r[f]]
      ELSE r : r \in @}]

\* mark_task_running whose UPDATE is never committed.
mark_task_running_uncommitted(db, task_id) == db

\* QueueStore.mark_task_running.
mark_task_running(db, task_id) ==
  UpdateWhereTaskId(db, task_id, [status |-> TASK_STATUS_RUNNING])

\* mark_task_completed that puts the task back in the queue.
mark_task_completed_requeues(db, task_id, output_markdown_path) ==
  UpdateWhereTaskId(db, task_id,
    [status |-> TASK_STATUS_PENDING,
     output_markdown_path |-> Some(output_markdown_path),
     error_message |-> NULL])

\* mark_task_completed that keeps an earlier error_message.
mark_task_completed_keeps_error(db, task_id, output_markdown_path) ==
  UpdateWhereTaskId(db, task_id,
    [status |-> TASK_STATUS_COMPLETED,
     output_markdown_path |-> Some(output_markdown_path)])

\* QueueStore.mark_task_completed.
mark_task_completed(db, task_id, output_markdown_path) ==
  UpdateWhereTaskId(db, task_id,
    [status |-> TASK_STATUS_COMPLETED,
     output_markdown_path |-> Some(output_markdown_path),
     error_message |-> NULL])

\* mark_task_failed that leaves error_message NULL.
mark_task_failed_no_message(db, task_id, error_message) ==
  UpdateWhereTaskId(db, task_id, [status |-> TASK_STATUS_FAILED])

\* mark_task_failed that writes the message and leaves the status as it was.
mark_task_failed_keeps_status(db, task_id, error_message) ==
  UpdateWhereTaskId(db, task_id, [error_message |-> Some(error_message)])

\* QueueStore.mark_task_failed: output_markdown_path is not among the SET
\* columns.
mark_task_failed(db, task_id, error_message) ==
  UpdateWhereTaskId(db, task_id,
    [status |-> TASK_STATUS_FAILED, error_message |-> Some(error_message)])

\* The listing with ORDER BY task_id DESC.
fetch_tasks_in_reverse_order(db) == OrderByTaskIdDesc(db.rows)

\* QueueStore.fetch_tasks_in_enqueue_order.
fetch_tasks_in_enqueue_order(db) == OrderByTaskIdAsc(db.rows)

\* fetch_status_counts with a key for every status, zero counts included.
fetch_status_counts_every_status(db) ==
  [status \in Statuses |-> Cardinality({r \in db.rows : r.status = status})]

\* QueueStore.fetch_status_counts: SELECT status, COUNT(*) ... GROUP BY status
\* as a dict, which has a key for a status only when some row has it.
fetch_status_counts(db) ==
  [status \in {r.status : r \in db.rows} |->
     Cardinality({r \in db.rows : r.status = status})]

\* A delete that spares the rows a loop is working on.
delete_all_tasks_spares_running(db) ==
  [db |-> [db EXCEPT !.rows = {r \in db.rows : r.status = TASK_STATUS_RUNNING}],
   ret |-> Cardinality({r \in db.rows : r.status # TASK_STATUS_RUNNING})]

\* QueueStore.delete_all_tasks: DELETE FROM tasks leaves sqlite_sequence alone.
delete_all_tasks(db) ==
  [db |-> [db EXCEPT !.rows = {}], ret |-> Cardinality(db.rows)]


\* --------------------------------------------------- opening the store file
DEFAULT_SQLITE_CONNECT_MAX_RETRIES == 5

\* What one sqlite3.connect can do: return a connection, or raise
\* sqlite3.OperationalError with "disk I/O error" in its message,
\* sqlite3.OperationalError with another message, or an exception of
\* another class.
CONNECTED == "connection"
DISK_IO_ERROR == "OperationalError('disk I/O error')"
UNABLE_TO_OPEN == "OperationalError('unable to open database file')"
OTHER_ERROR == "PermissionError()"
ConnectOutcomes == {CONNECTED, DISK_IO_ERROR, UNABLE_TO_OPEN, OTHER_ERROR}
OperationalErrors == {DISK_IO_ERROR, UNABLE_TO_OPEN}

\* "disk I/O error" in str(exception)
IsDiskIoError(exception) == exception = DISK_IO_ERROR

\* The methods of QueueStore that open a connection.
ConnectingOps ==
  {"initialize", "enqueue_image_tasks", "enqueue_pdf_page_tasks",
   "fetch_next_pending_task", "mark_task_running", "mark_task_completed",
   "mark_task_failed", "fetch_tasks_in_enqueue_order", "fetch_status_counts",
   "delete_all_tasks"}

\* _connect that retries after every OperationalError and sleeps after the
\* last attempt too.
RECURSIVE ConnectLoopRetriesAll(_, _, _)
ConnectLoopRetriesAll(outcomes, attempt_index, sleeps) ==
  LET outcome == outcomes[attempt_index + 1]
  IN IF attempt_index >= DEFAULT_SQLITE_CONNECT_MAX_RETRIES
     THEN [raised |-> Some(outcomes[attempt_index]),
           attempts |-> attempt_index, sleeps |-> sleeps]
     ELSE IF outcome = CONNECTED
     THEN [raised |-> NULL, attempts |-> attempt_index + 1, sleeps |-> sleeps]
     ELSE IF outcome \notin OperationalErrors
     THEN [raised |-> Some(outcome), attempts |-> attempt_index + 1,
           sleeps |-> sleeps]
     ELSE ConnectLoopRetriesAll(outcomes, attempt_index + 1, sleeps + 1)

_connect_retries_all(outcomes) == ConnectLoopRetriesAll(outcomes, 0, 0)

\* The for loop of _connect from attempt_index on.  outcomes[i] is what the
\* i-th sqlite3.connect of the call does; the result is the exception that
\* leaves _connect (NULL when the connection is returned), the number of
\* attempts made and the number of sleeps.
RECURSIVE ConnectLoop(_, _, _)
ConnectLoop(outcomes, attempt_index, sleeps) ==
  LET outcome == outcomes[attempt_index + 1]
  IN IF attempt_index >= DEFAULT_SQLITE_CONNECT_MAX_RETRIES
     THEN [raised |-> Some(outcomes[attempt_index]),
           attempts |-> attempt_index, sleeps |-> sleeps]
     ELSE IF outcome = CONNECTED
     THEN [raised |-> NULL, attempts |-> attempt_index + 1, sleeps |-> sleeps]
     ELSE IF outcome \notin OperationalErrors
     THEN [raised |-> Some(outcome), attempts |-> attempt_index + 1,
           sleeps |-> sleeps]
     ELSE IF ~IsDiskIoError(outcome)
     THEN [raised |-> Some(outcome), attempts |-> attempt_index + 1,
           sleeps |-> sleeps]
     ELSE IF attempt_index >= DEFAULT_SQLITE_CONNECT_MAX_RETRIES - 1
     THEN [raised |-> Some(outcome), attempts |-> attempt_index + 1,
           sleeps |-> sleeps]
     ELSE ConnectLoop(outcomes, attempt_index + 1, sleeps + 1)

\* QueueStore._connect
_connect(outcomes) == ConnectLoop(outcomes, 0, 0)


\* ------------------------------------------------------------ input split
_is_supported_image_file(file_path) == file_path.suffix \in SUPPORTED_IMAGE_FILE_EXTENSIONS

_is_supported_pdf_file(file_path) == file_path.suffix \in SUPPORTED_PDF_FILE_EXTENSIONS

\* The split with each list in the reverse of the order of paths.
split_image_and_pdf_paths_reversed(paths) ==
  LET images == SelectSeq(paths, _is_supported_image_file)
      pdfs == SelectSeq(paths, _is_supported_pdf_file)
  IN [image_file_paths |-> [i \in 1..Len(images) |-> images[Len(images) + 1 - i]],
      pdf_file_paths |-> [i \in 1..Len(pdfs) |-> pdfs[Len(pdfs) + 1 - i]]]

\* split_image_and_pdf_paths: the images and the PDFs of paths, each in the
\* order of paths.
split_image_and_pdf_paths(paths) ==
  [image_file_paths |-> SelectSeq(paths, _is_supported_image_file),
   pdf_file_paths |-> SelectSeq(paths, _is_supported_pdf_file)]

\* ------------------------------------------------------------ the producer
\* repr() of the exceptions the producer raises.
ERR_FILE_NOT_FOUND == "FileNotFoundError"
ERR_PAGE_NEGATIVE == "ValueError('pdf_page_index must be >= 0')"
ERR_PAGE_OUT_OF_RANGE == "ValueError('pdf_page_index is out of range')"
ERR_PAGE_REQUIRED == "ValueError('pdf_page_index is required for pdf_page task')"
ERR_UNSUPPORTED_KIND == "ValueError('Unsupported task kind')"
ERR_MODEL == "RuntimeError"
OK == "ok"

\* What the producer reads from outside the store: whether the task's source
\* file exists, the page count the PDF has now, whether the page was rendered
\* by an earlier run, and whether inference raises.
\* The texts the OCR model returns: blank, or a line with inline math.
OcrTexts == {<<" ", "\n">>, <<"\\(", "x", "\\)", "\n">>}

ProducerInputs ==
  [source_exists : BOOLEAN,
   pdf_pages_now : 0..MaxPdfPages,
   rendered_exists : BOOLEAN,
   infer_raises : BOOLEAN]

\* render_pdf_page_to_image_file: OK or the exception raised.
render_pdf_page_to_image_file(pdf_exists, pdf_page_index, pdf_pages_now) ==
  IF ~pdf_exists THEN ERR_FILE_NOT_FOUND
  ELSE IF pdf_page_index < 0 THEN ERR_PAGE_NEGATIVE
  ELSE IF pdf_page_index >= pdf_pages_now THEN ERR_PAGE_OUT_OF_RANGE
  ELSE OK

\* _resolve_task_image_path: OK or the exception raised.
_resolve_task_image_path(task, env) ==
  IF task.task_kind = TASK_KIND_IMAGE THEN OK
  ELSE IF task.task_kind # TASK_KIND_PDF_PAGE THEN ERR_UNSUPPORTED_KIND
  ELSE IF task.pdf_page_index = NULL THEN ERR_PAGE_REQUIRED
  ELSE IF env.rendered_exists THEN OK
  ELSE render_pdf_page_to_image_file(env.source_exists, task.pdf_page_index[1],
                                     env.pdf_pages_now)

\* DeepSeekOcr2Runner.infer_markdown_from_image: OK or the exception raised.
\* The image of an image task is its source file, that of a pdf_page task
\* the rendered page, which exists once _resolve_task_image_path returned.
infer_markdown_from_image(task, env) ==
  IF task.task_kind = TASK_KIND_IMAGE /\ ~env.source_exists THEN ERR_FILE_NOT_FOUND
  ELSE IF env.infer_raises THEN ERR_MODEL
  ELSE OK

\* _process_task_to_markdown: OK (task_<id>.md was written) or the exception.
_process_task_to_markdown(task, env) ==
  LET resolved == _resolve_task_image_path(task, env)
  IN IF resolved # OK THEN resolved ELSE infer_markdown_from_image(task, env)

\* per_task_markdown_directory_path / f"task_{task.task_id}.md"
TaskMarkdownPath(task_id) == <<"markdown_items", "task_", task_id, ".md">>

\* --------------------------------------------------------- markdown as text
\* A text is a sequence of tokens.  A token is one character, or a unit the
\* patterns below treat as a whole: a LaTeX delimiter (backslash and
\* bracket) or a run of three backticks or three tildes.
MATH_DELIMITER_STYLE_LATEX == "latex"
MATH_DELIMITER_STYLE_DOLLAR == "dollar"
DEFAULT_MATH_DELIMITER_STYLE == MATH_DELIMITER_STYLE_DOLLAR
MathDelimiterStyles == {MATH_DELIMITER_STYLE_LATEX, MATH_DELIMITER_STYLE_DOLLAR}

BACKTICKS == "3 backticks"
TILDES == "~~~"
TextTokens == {"\\(", "\\)", "\\[", "\\]", "x", "$", " ", "\n", BACKTICKS, TILDES}

\* The characters \s matches and str.strip() removes.
WhitespaceTokens == {" ", "\n"}

\* The first character of a run of backticks or tildes, "" for other tokens.
FenceCharOf(token) ==
  IF token = BACKTICKS THEN "backtick" ELSE IF token = TILDES THEN "~" ELSE ""

\* The least index from start on whose token is in tokens, 0 when none is.
FirstIndexIn(text, tokens, start) ==
  LET found == {i \in start..Len(text) : text[i] \in tokens}
  IN IF found = {} THEN 0 ELSE CHOOSE i \in found : \A j \in found : i <= j

\* The least index from start on whose token is not in tokens, 0 when none.
FirstIndexNotIn(text, tokens, start) ==
  LET found == {i \in start..Len(text) : text[i] \notin tokens}
  IN IF found = {} THEN 0 ELSE CHOOSE i \in found : \A j \in found : i <= j

\* str.strip(chars): drop the leading and trailing characters in chars.
strip(text, chars) ==
  LET kept == {i \in 1..Len(text) : text[i] \notin chars}
  IN IF kept = {}
     THEN <<>>
     ELSE SubSeq(text, CHOOSE i \in kept : \A j \in kept : i <= j,
                       CHOOSE i \in kept : \A j \in kept : j <= i)

\* str.splitlines(keepends=True): every line keeps its line break.
RECURSIVE splitlines(_)
splitlines(text) ==
  LET line_end == FirstIndexIn(text, {"\n"}, 1)
  IN IF text = <<>> THEN <<>>
     ELSE IF line_end = 0 THEN <<text>>
     ELSE <<SubSeq(text, 1, line_end)>>
            \o splitlines(SubSeq(text, line_end + 1, Len(text)))

\* _FENCE_START_PATTERN.match(line), ^(\s*)(`{3,}|~{3,}): leading
\* whitespace, then the longest run of backticks or of tildes.  NULL when the
\* line does not start so, else the groups indent and marker.
_FENCE_START_PATTERN_match(line) ==
  LET after_indent == FirstIndexNotIn(line, WhitespaceTokens, 1)
      fence_char == FenceCharOf(line[after_indent])
      others == {i \in after_indent..Len(line) : FenceCharOf(line[i]) # fence_char}
      marker_end == IF others = {} THEN Len(line)
                    ELSE (CHOOSE i \in others : \A j \in others : i <= j) - 1
  IN IF after_indent = 0 \/ fence_char = ""
     THEN NULL
     ELSE Some([indent |-> SubSeq(line, 1, after_indent - 1),
                marker |-> SubSeq(line, after_indent, marker_end)])

\* The two delimiter patterns \\\((.+?)\\\) and \\\[(.+?)\\\], DOTALL.
_INLINE_LATEX_MATH_PATTERN == [open |-> "\\(", close |-> "\\)"]
_BLOCK_LATEX_MATH_PATTERN == [open |-> "\\[", close |-> "\\]"]

\* pattern.search(text): the leftmost opening delimiter that has a closing
\* one after at least one character, matched up to the nearest such closing
\* delimiter.  NULL when there is no match, else where the match starts and
\* ends.
search(pattern, text) ==
  LET starts == {p \in 1..Len(text) :
                   /\ text[p] = pattern.open
                   /\ FirstIndexIn(text, {pattern.close}, p + 2) # 0}
      start == CHOOSE p \in starts : \A q \in starts : p <= q
  IN IF starts = {} THEN NULL
     ELSE Some([start |-> start,
                end |-> FirstIndexIn(text, {pattern.close}, start + 2)])

\* replace_block: $$ on its own line around the content without its leading
\* and trailing line breaks.
replace_block(content) == <<"$$", "\n">> \o strip(content, {"\n"}) \o <<"\n", "$$">>

\* replace_inline without the strip: the content as it is between the signs.
replace_inline_untrimmed(content) == <<"$">> \o content \o <<"$">>

\* replace_inline: $ around the content stripped of whitespace.
replace_inline(content) == <<"$">> \o strip(content, WhitespaceTokens) \o <<"$">>

\* pattern.sub(replace, text): every match, left to right, replaced.
RECURSIVE sub(_, _)
sub(pattern, text) ==
  LET found == search(pattern, text)
      content == SubSeq(text, found[1].start + 1, found[1].end - 1)
  IN IF found = NULL THEN text
     ELSE SubSeq(text, 1, found[1].start - 1)
            \o (IF pattern = _BLOCK_LATEX_MATH_PATTERN
                THEN replace_block(content)
                ELSE replace_inline(content))
            \o sub(pattern, SubSeq(text, found[1].end + 1, Len(text)))

\* Block spans first, then inline spans in the result.
_convert_latex_math_delimiters_in_plain_markdown(markdown_text) ==
  sub(_INLINE_LATEX_MATH_PATTERN, sub(_BLOCK_LATEX_MATH_PATTERN, markdown_text))

\* flush_non_code_chunk: the pending plain text is converted and emitted.
flush_non_code_chunk(st) ==
  IF st.current_non_code_chunk = <<>> THEN st
  ELSE [st EXCEPT !.converted_chunks =
                     @ \o _convert_latex_math_delimiters_in_plain_markdown(
                            st.current_non_code_chunk),
                  !.current_non_code_chunk = <<>>]

\* One turn of the loop over lines.
ConvertLine(st, line) ==
  LET fence_match == _FENCE_START_PATTERN_match(line)
      indent == fence_match[1].indent
      marker == fence_match[1].marker
      plain == IF st.is_inside_fenced_code_block
               THEN [st EXCEPT !.converted_chunks = @ \o line]
               ELSE [st EXCEPT !.current_non_code_chunk = @ \o line]
  IN IF fence_match = NULL THEN plain
     ELSE IF strip(indent, WhitespaceTokens) # <<>> THEN plain
     ELSE IF ~st.is_inside_fenced_code_block
     THEN [flush_non_code_chunk(st) EXCEPT !.is_inside_fenced_code_block = TRUE,
                                           !.fence_marker = marker,
                                           !.converted_chunks = @ \o line]
     ELSE IF st.fence_marker # NULL
             /\ FenceCharOf(marker[1]) = FenceCharOf(st.fence_marker[1])
     THEN [st EXCEPT !.is_inside_fenced_code_block = FALSE,
                     !.fence_marker = NULL,
                     !.converted_chunks = @ \o line]
     ELSE [st EXCEPT !.converted_chunks = @ \o line]

RECURSIVE ConvertLines(_, _)
ConvertLines(st, lines) ==
  IF lines = <<>> THEN st ELSE ConvertLines(ConvertLine(st, Head(lines)), Tail(lines))

\* The same with the fence guard taken out: the whole text is plain markdown.
_convert_ignoring_fences(markdown_text) ==
  _convert_latex_math_delimiters_in_plain_markdown(markdown_text)

\* Plain text is converted chunk by chunk, the lines of fenced code blocks
\* are copied.
_convert_latex_math_delimiters_to_dollar(markdown_text) ==
  flush_non_code_chunk(
    ConvertLines([converted_chunks |-> <<>>, current_non_code_chunk |-> <<>>,
                  is_inside_fenced_code_block |-> FALSE, fence_marker |-> NULL],
                 splitlines(markdown_text))).converted_chunks

\* The value of OCR_AGENT_MATH_DELIMITER_STYLE is a sequence of characters,
\* NULL when the variable is not set.  The characters of the two styles:
chars(style) ==
  IF style = MATH_DELIMITER_STYLE_LATEX
  THEN <<"l", "a", "t", "e", "x">>
  ELSE <<"d", "o", "l", "l", "a", "r">>

\* Spellings from_environment takes for latex, for dollar, and values it
\* does not recognize.
LatexSpellings == {chars(MATH_DELIMITER_STYLE_LATEX), <<" ", "L", "a", "T", "e", "X", "\n">>}
DollarSpellings == {chars(MATH_DELIMITER_STYLE_DOLLAR), <<"D", "O", "L", "L", "A", "R", " ">>}
UnrecognizedValues == {<<>>, <<"l", "a", " ", "t", "e", "x">>}
EnvironmentValues ==
  {NULL} \cup {Some(value) : value \in LatexSpellings \cup DollarSpellings
                                         \cup UnrecognizedValues}

\* os.getenv(name, default)
getenv(environment, default) ==
  IF environment = NULL THEN default ELSE environment[1]

\* str.lower()
lower(text) ==
  [i \in 1..Len(text) |->
     CASE text[i] = "L" -> "l" [] text[i] = "A" -> "a" [] text[i] = "T" -> "t"
       [] text[i] = "E" -> "e" [] text[i] = "X" -> "x" [] text[i] = "D" -> "d"
       [] text[i] = "O" -> "o" [] text[i] = "R" -> "r" [] OTHER -> text[i]]

\* from_environment that hands an unknown value on as the style.
from_environment_keeps_unknown(environment) ==
  LET normalized ==
        lower(strip(getenv(environment, chars(DEFAULT_MATH_DELIMITER_STYLE)),
                    WhitespaceTokens))
  IN [math_delimiter_style |->
        IF normalized = chars(MATH_DELIMITER_STYLE_LATEX)
        THEN MATH_DELIMITER_STYLE_LATEX
        ELSE IF normalized = chars(MATH_DELIMITER_STYLE_DOLLAR)
        THEN MATH_DELIMITER_STYLE_DOLLAR
        ELSE "unknown"]

\* MarkdownPostProcessingSettings.from_environment: the value stripped and
\* lowered when it is one of the two styles, the default otherwise.
from_environment(environment) ==
  LET raw == strip(getenv(environment, chars(DEFAULT_MATH_DELIMITER_STYLE)),
                   WhitespaceTokens)
      normalized == lower(raw)
      styles == {style \in MathDelimiterStyles : chars(style) = normalized}
  IN IF styles # {}
     THEN [math_delimiter_style |-> CHOOSE style \in styles : TRUE]
     ELSE [math_delimiter_style |-> DEFAULT_MATH_DELIMITER_STYLE]

_post_process_task_markdown(task_markdown, math_delimiter_style) ==
  IF math_delimiter_style # MATH_DELIMITER_STYLE_DOLLAR
  THEN task_markdown
  ELSE _convert_latex_math_delimiters_to_dollar(task_markdown)


\* ---------------------------------------------------------- the merge step
\* str(n) for a natural number: its decimal digits.
RECURSIVE str_int(_)
str_int(n) ==
  LET digits == <<"0", "1", "2", "3", "4", "5", "6", "7", "8", "9">>
  IN IF n < 10 THEN <<digits[n + 1]>>
     ELSE str_int(n \div 10) \o <<digits[(n % 10) + 1]>>

\* str(path)
str_path(path) == <<path.stem, path.suffix>>

\* str.rstrip(): drop the trailing whitespace.
rstrip(text) ==
  LET kept == {i \in 1..Len(text) : text[i] \notin WhitespaceTokens}
  IN IF kept = {} THEN <<>>
     ELSE SubSeq(text, 1, CHOOSE i \in kept : \A j \in kept : j <= i)

\* separator.join(items)
RECURSIVE join(_, _)
join(separator, items) ==
  IF items = <<>> THEN <<>>
  ELSE IF Len(items) = 1 THEN items[1]
  ELSE items[1] \o separator \o join(separator, Tail(items))

\* The file behind an output_markdown_path: NULL when there is none, else
\* its text.  The files are the per-task artifacts, one per task_id.
read_text(files, output_markdown_path) == files[output_markdown_path[3]]

\* The header with the zero-based page index in place of page_number_human.
_render_task_header_lines_zero_based(task) ==
  IF task.task_kind = TASK_KIND_PDF_PAGE
     /\ task.pdf_page_index # NULL /\ task.pdf_total_pages # NULL
  THEN << <<"## ">> \o str_path(task.source_path) \o <<" (page ">>
            \o str_int(task.pdf_page_index[1]) \o <<"/">>
            \o str_int(task.pdf_total_pages[1]) \o <<")">>,
          <<>> >>
  ELSE << <<"## ">> \o str_path(task.source_path), <<>> >>

_render_task_header_lines(task) ==
  IF task.task_kind = TASK_KIND_IMAGE
  THEN << <<"## ">> \o str_path(task.source_path), <<>> >>
  ELSE IF task.task_kind = TASK_KIND_PDF_PAGE
  THEN IF task.pdf_page_index = NULL \/ task.pdf_total_pages = NULL
       THEN << <<"## ">> \o str_path(task.source_path), <<>> >>
       ELSE << <<"## ">> \o str_path(task.source_path) \o <<" (page ">>
                 \o str_int(task.pdf_page_index[1] + 1) \o <<"/">>
                 \o str_int(task.pdf_total_pages[1]) \o <<")">>,
               <<>> >>
  ELSE << <<"## ">> \o str_path(task.source_path), <<>> >>

\* What one task appends to merged_lines.
SectionLines(task, task_markdown, math_delimiter_style) ==
  _render_task_header_lines(task)
    \o << <<>>, _post_process_task_markdown(task_markdown, math_delimiter_style),
          <<>>, <<"---">>, <<>> >>

\* One turn of the loop with the three skips taken out: a task without a
\* usable artifact gets a section with empty content.
MergeTaskWithoutSkips(merged_lines, task, files, math_delimiter_style) ==
  merged_lines
    \o SectionLines(task,
                    IF task.output_markdown_path = NULL
                       \/ read_text(files, task.output_markdown_path[1]) = NULL
                    THEN <<>>
                    ELSE read_text(files, task.output_markdown_path[1])[1],
                    math_delimiter_style)

\* One turn of the loop over tasks_in_enqueue_order.
MergeTask(merged_lines, task, files, math_delimiter_style) ==
  IF task.output_markdown_path = NULL THEN merged_lines
  ELSE IF read_text(files, task.output_markdown_path[1]) = NULL THEN merged_lines
  ELSE IF strip(read_text(files, task.output_markdown_path[1])[1], WhitespaceTokens) = <<>>
  THEN merged_lines
  ELSE merged_lines
         \o SectionLines(task, read_text(files, task.output_markdown_path[1])[1],
                         math_delimiter_style)

\* The loop run from the last task to the first.
RECURSIVE MergeLoopNewestFirst(_, _, _, _)
MergeLoopNewestFirst(merged_lines, tasks, files, math_delimiter_style) ==
  IF tasks = <<>> THEN merged_lines
  ELSE MergeTask(MergeLoopNewestFirst(merged_lines, Tail(tasks), files,
                                      math_delimiter_style),
                 Head(tasks), files, math_delimiter_style)

RECURSIVE MergeLoop(_, _, _, _)
MergeLoop(merged_lines, tasks, files, math_delimiter_style) ==
  IF tasks = <<>> THEN merged_lines
  ELSE MergeLoop(MergeTask(merged_lines, Head(tasks), files, math_delimiter_style),
                 Tail(tasks), files, math_delimiter_style)

\* The lines the loop collects under the title.
merged_lines_of(tasks_in_enqueue_order, files, math_delimiter_style) ==
  MergeLoop(<< <<"# OCR Output">>, <<>> >>, tasks_in_enqueue_order, files,
            math_delimiter_style)

\* The text written to merged_markdown_path.
merge_tasks_into_single_markdown(tasks_in_enqueue_order, files, math_delimiter_style) ==
  rstrip(join(<<"\n">>, merged_lines_of(tasks_in_enqueue_order, files,
                                        math_delimiter_style)))
    \o <<"\n">>

\* ------------------------------------------------------------------- state
VARIABLES
  db,             \* the store file: [table, rows, seq]
  last_call,      \* the last direct QueueStore call and what it returned
  enqueue_cmd,    \* the enqueue command: [pc, pdf_file_paths, created, added, exit_code]
  run_cmd,        \* the run command: [pc, next_task, fail_fast, processed, failed]
  enqueue_log,    \* history: what was enqueued since the table was last emptied
  ever_assigned,  \* history: every task_id the table has ever held
  running_log,    \* history: the ids the run loop passed to mark_task_running
  finished_ids,   \* history: the ids marked running and then completed or failed
  completed_log,  \* history: the ids of the table in the order they first completed
  files,          \* markdown_items/task_<task_id>.md: NULL or the file's text
  merged_markdown, \* the file at merged_markdown_path: NULL or its text
  markdown_text,  \* a text given to the delimiter conversion
  converted_text, \* NULL, or what the conversion made of markdown_text
  connect_call,   \* NULL, or a call of _connect: [op, outcomes, raised, attempts, sleeps]
  other_run_cmd   \* a run command of a second process on the same store

vars == <<db, last_call, enqueue_cmd, run_cmd, enqueue_log, ever_assigned,
          running_log, finished_ids, completed_log, files, merged_markdown,
          markdown_text, converted_text, connect_call, other_run_cmd>>

artifacts == <<files, merged_markdown>>

conversion == <<markdown_text, converted_text>>

history == <<enqueue_log, ever_assigned, running_log, finished_ids, completed_log>>

TaskIds == 1..MaxTaskId

NoCall == [op |-> "none", ret |-> NULL]

EnqueueIdle == [pc |-> "idle", pdf_file_paths |-> <<>>, created |-> 0, added |-> 0,
                exit_code |-> 0]

\* merge_calls counts the calls of merge_tasks_into_single_markdown the
\* command has made.
RunIdle == [pc |-> "idle", next_task |-> NULL, fail_fast |-> FALSE,
            processed_tasks_count |-> 0, failed_tasks_count |-> 0,
            merge_calls |-> 0]

\* Before any command ran: no store file.
Init ==
  /\ db = [table |-> FALSE, rows |-> {}, seq |-> 0]
  /\ last_call = NoCall
  /\ enqueue_cmd = EnqueueIdle
  /\ run_cmd = RunIdle
  /\ enqueue_log = <<>>
  /\ ever_assigned = {}
  /\ running_log = <<>>
  /\ finished_ids = {}
  /\ completed_log = <<>>
  /\ files = [task_id \in TaskIds |-> NULL]
  /\ merged_markdown = NULL
  /\ markdown_text = <<>>
  /\ converted_text = NULL
  /\ connect_call = NULL
  /\ other_run_cmd = RunIdle

\* History entries of one enqueue call.
ImageLog(image_file_paths) ==
  [i \in 1..Len(image_file_paths) |->
     [task_kind |-> TASK_KIND_IMAGE, source_path |-> image_file_paths[i],
      pdf_page_index |-> NULL]]

PdfLog(pdf_file_path, pdf_total_pages) ==
  [i \in 1..Max2(pdf_total_pages, 0) |->
     [task_kind |-> TASK_KIND_PDF_PAGE, source_path |-> pdf_file_path,
      pdf_page_index |-> Some(i - 1)]]

\* The ids whose row is Running: a mark_task_running call was the last mark
\* call on them.
RunningIds(d) == {r.task_id : r \in {q \in d.rows : q.status = TASK_STATUS_RUNNING}}

\* The history of enqueues after a store call led from db to the new store.
Logged(new_db, entries) ==
  /\ enqueue_log' = enqueue_log \o entries
  /\ ever_assigned' = ever_assigned \cup RowIds(new_db.rows)

\* The history of completions after task_id was marked Completed.
FirstCompleted(task_id) ==
  IF \E i \in 1..Len(completed_log) : completed_log[i] = task_id
  THEN completed_log
  ELSE Append(completed_log, task_id)

\* --------------------------------------------- direct calls of the store
\* Each Api* action is one QueueStore method called by an arbitrary caller.
\* A method other than initialize raises sqlite3.OperationalError (no such
\* table) before initialize has run: it is not enabled then.  The one
\* exception is enqueue_pdf_page_tasks with no page, which returns before it
\* opens the store.

ApiInitialize ==
  /\ db' = initialize(db)
  /\ last_call' = [op |-> "initialize", ret |-> NULL]
  /\ UNCHANGED <<artifacts, conversion, connect_call, enqueue_cmd, run_cmd, history,
                      other_run_cmd>>

ApiEnqueueImageTasks ==
  \E image_file_paths \in SeqsOf(ImagePaths, 0, MaxPaths), created \in Times :
    LET out == enqueue_image_tasks(db, image_file_paths, created)
    IN /\ db.table
       /\ db.seq + Len(image_file_paths) <= MaxTaskId
       /\ db' = out.db
       /\ last_call' = [op |-> "enqueue_image_tasks", ret |-> Some(out.ret)]
       /\ Logged(out.db, ImageLog(image_file_paths))
       /\ UNCHANGED <<artifacts, conversion, connect_call, enqueue_cmd, run_cmd, running_log, finished_ids, completed_log,
                      other_run_cmd>>

ApiEnqueuePdfPageTasks ==
  \E pdf_file_path \in PdfPaths, pdf_total_pages \in (0 - 1)..MaxPdfPages, created \in Times :
    LET out == enqueue_pdf_page_tasks(db, pdf_file_path, pdf_total_pages, created)
    IN /\ db.table \/ pdf_total_pages <= 0
       /\ db.seq + pdf_total_pages <= MaxTaskId
       /\ db' = out.db
       /\ last_call' = [op |-> "enqueue_pdf_page_tasks", ret |-> Some(out.ret)]
       /\ Logged(out.db, PdfLog(pdf_file_path, pdf_total_pages))
       /\ UNCHANGED <<artifacts, conversion, connect_call, enqueue_cmd, run_cmd, running_log, finished_ids, completed_log,
                      other_run_cmd>>

\* A fetch that claims the task it returns by marking it Running.
ApiFetchAndClaimNextPendingTask ==
  LET next_task == fetch_next_pending_task(db)
  IN /\ db.table
     /\ db' = IF next_task = NULL THEN db
              ELSE mark_task_running(db, next_task[1].task_id)
     /\ last_call' = [op |-> "fetch_next_pending_task", ret |-> next_task]
     /\ UNCHANGED <<artifacts, conversion, connect_call, enqueue_cmd, run_cmd, history,
                      other_run_cmd>>

ApiFetchNextPendingTask ==
  /\ db.table
  /\ last_call' = [op |-> "fetch_next_pending_task", ret |-> fetch_next_pending_task(db)]
  /\ UNCHANGED <<artifacts, conversion, connect_call, db, enqueue_cmd, run_cmd, history,
                      other_run_cmd>>

ApiMarkTaskRunning ==
  \E task_id \in TaskIds :
    /\ db.table
    /\ db' = mark_task_running(db, task_id)
    /\ last_call' = [op |-> "mark_task_running", ret |-> NULL]
    /\ UNCHANGED <<artifacts, conversion, connect_call, enqueue_cmd, run_cmd, history,
                      other_run_cmd>>

ApiMarkTaskCompleted ==
  \E task_id \in TaskIds :
    /\ db.table
    /\ db' = mark_task_completed(db, task_id, TaskMarkdownPath(task_id))
    /\ last_call' = [op |-> "mark_task_completed", ret |-> NULL]
    /\ completed_log' = IF task_id \in RowIds(db.rows) THEN FirstCompleted(task_id)
                                                       ELSE completed_log
    /\ UNCHANGED <<artifacts, conversion, connect_call, enqueue_cmd, run_cmd, enqueue_log,
                   ever_assigned, running_log, finished_ids, other_run_cmd>>

ApiMarkTaskFailed ==
  \E task_id \in TaskIds, error_message \in {ERR_MODEL} :
    /\ db.table
    /\ db' = mark_task_failed(db, task_id, error_message)
    /\ last_call' = [op |-> "mark_task_failed", ret |-> NULL]
    /\ UNCHANGED <<artifacts, conversion, connect_call, enqueue_cmd, run_cmd, history,
                      other_run_cmd>>

ApiFetchTasksInEnqueueOrder ==
  /\ db.table
  /\ last_call' = [op |-> "fetch_tasks_in_enqueue_order",
                   ret |-> fetch_tasks_in_enqueue_order(db)]
  /\ UNCHANGED <<artifacts, conversion, connect_call, db, enqueue_cmd, run_cmd, history,
                      other_run_cmd>>

ApiDeleteAllTasks ==
  LET out == delete_all_tasks(db)
  IN /\ db.table
     /\ db' = out.db
     /\ last_call' = [op |-> "delete_all_tasks", ret |-> Some(out.ret)]
     /\ enqueue_log' = <<>>
     /\ completed_log' = <<>>
     /\ UNCHANGED <<artifacts, conversion, connect_call, enqueue_cmd, run_cmd, ever_assigned, running_log, finished_ids,
                      other_run_cmd>>

NextApi ==
  \/ ApiInitialize
  \/ ApiEnqueueImageTasks
  \/ ApiEnqueuePdfPageTasks
  \/ ApiFetchNextPendingTask
  \/ ApiMarkTaskRunning
  \/ ApiMarkTaskCompleted
  \/ ApiMarkTaskFailed
  \/ ApiFetchTasksInEnqueueOrder
  \/ ApiDeleteAllTasks

\* Any sequence of QueueStore calls.
SpecApi == Init /\ [][NextApi]_vars


\* ------------------------------------------------------ the enqueue command
EXIT_CODE_OK == 0
EXIT_CODE_UNCAUGHT_EXCEPTION == 1
EXIT_CODE_NOTHING_ENQUEUED == 2

\* The end of _run_enqueue_command once every PDF is enqueued: exit code 2
\* when nothing was added.
EnqueueExit(total_tasks_added_count) ==
  [EnqueueIdle EXCEPT !.exit_code = IF total_tasks_added_count = 0
                                    THEN EXIT_CODE_NOTHING_ENQUEUED
                                    ELSE EXIT_CODE_OK]

\* _run_enqueue_command up to the commit of enqueue_image_tasks, for what
\* discovery returned and the clock read: initialize, the split, and the
\* insert of every image.
EnqueueStartWith(expanded_paths, created) ==
  LET split == split_image_and_pdf_paths(expanded_paths)
      out == enqueue_image_tasks(initialize(db), split.image_file_paths, created)
  IN /\ enqueue_cmd.pc = "idle"
     /\ db.seq + Len(split.image_file_paths) <= MaxTaskId
     /\ db' = out.db
     /\ enqueue_cmd' =
          IF split.pdf_file_paths = <<>>
          THEN EnqueueExit(out.ret)
          ELSE [pc |-> "pdfs", pdf_file_paths |-> split.pdf_file_paths,
                created |-> created, added |-> out.ret, exit_code |-> EXIT_CODE_OK]
     /\ Logged(out.db, ImageLog(split.image_file_paths))
     /\ UNCHANGED <<artifacts, conversion, connect_call, last_call, run_cmd, running_log, finished_ids, completed_log,
                    other_run_cmd>>

\* The enqueue command on any list of supported files that discovery returns
\* and any reading of the clock.
EnqueueStart ==
  \E expanded_paths \in SeqsOf(Paths, 0, MaxPaths), created \in Times :
    EnqueueStartWith(expanded_paths, created)

\* One turn of the loop over pdf_file_paths: get_pdf_total_pages (which
\* raises FileNotFoundError, ending the command, when the PDF is gone) and
\* enqueue_pdf_page_tasks.
EnqueuePdf ==
  \E pdf_exists \in BOOLEAN, pdf_total_pages \in 0..MaxPdfPages :
    LET pdf_file_path == Head(enqueue_cmd.pdf_file_paths)
        out == enqueue_pdf_page_tasks(db, pdf_file_path, pdf_total_pages,
                                      enqueue_cmd.created)
        rest == Tail(enqueue_cmd.pdf_file_paths)
    IN /\ enqueue_cmd.pc = "pdfs"
       /\ db.seq + pdf_total_pages <= MaxTaskId
       /\ IF ~pdf_exists
          THEN /\ enqueue_cmd' = [EnqueueIdle EXCEPT !.exit_code = EXIT_CODE_UNCAUGHT_EXCEPTION]
               /\ UNCHANGED <<db, enqueue_log, ever_assigned>>
          ELSE /\ db' = out.db
               /\ enqueue_cmd' =
                    IF rest = <<>>
                    THEN EnqueueExit(enqueue_cmd.added + out.ret)
                    ELSE [enqueue_cmd EXCEPT !.pdf_file_paths = rest,
                                             !.added = @ + out.ret]
               /\ Logged(out.db, PdfLog(pdf_file_path, pdf_total_pages))
       /\ UNCHANGED <<artifacts, conversion, connect_call, last_call, run_cmd, running_log, finished_ids, completed_log,
                      other_run_cmd>>

\* ---------------------------------------------------------- the run command
RunLoopPcs == {"fetch", "mark", "process"}

\* _run_run_command up to the loop: initialize, directories, settings.
RunStart ==
  \E fail_fast \in BOOLEAN :
    /\ run_cmd.pc \in {"idle", "done", "aborted"}
    /\ db' = initialize(db)
    /\ run_cmd' = [RunIdle EXCEPT !.pc = "fetch", !.fail_fast = fail_fast]
    /\ UNCHANGED <<artifacts, conversion, connect_call, last_call, enqueue_cmd, history,
                      other_run_cmd>>

\* The fetch made to claim the task: the row is marked Running in the
\* transaction that selects it.
RunFetchClaims ==
  LET next_task == fetch_next_pending_task(db)
  IN /\ run_cmd.pc = "fetch"
     /\ run_cmd' = [run_cmd EXCEPT !.pc = IF next_task = NULL THEN "merge" ELSE "mark",
                                   !.next_task = next_task]
     /\ db' = IF next_task = NULL THEN db ELSE mark_task_running(db, next_task[1].task_id)
     /\ UNCHANGED <<artifacts, conversion, connect_call, last_call, enqueue_cmd, history,
                      other_run_cmd>>

\* next_task = fetch_next_pending_task(); break when it is None.
RunFetch ==
  LET next_task == fetch_next_pending_task(db)
  IN /\ run_cmd.pc = "fetch"
     /\ run_cmd' = [run_cmd EXCEPT !.pc = IF next_task = NULL THEN "merge" ELSE "mark",
                                   !.next_task = next_task]
     /\ UNCHANGED <<artifacts, conversion, connect_call, db, last_call, enqueue_cmd, history,
                      other_run_cmd>>

\* queue_store.mark_task_running(next_task.task_id)
RunMarkRunning ==
  LET task == run_cmd.next_task[1]
  IN /\ run_cmd.pc = "mark"
     /\ Len(running_log) <= MaxTaskId
     /\ db' = mark_task_running(db, task.task_id)
     /\ run_cmd' = [run_cmd EXCEPT !.pc = "process"]
     /\ running_log' = Append(running_log, task.task_id)
     /\ UNCHANGED <<artifacts, conversion, connect_call, last_call, enqueue_cmd, enqueue_log, ever_assigned, finished_ids, completed_log,
                      other_run_cmd>>

\* The loop body with `if fail_fast: raise` replaced by an unconditional raise.
RunProcessAlwaysRaises ==
  \E env \in ProducerInputs, inferred_markdown \in OcrTexts :
    LET task == run_cmd.next_task[1]
        outcome == _process_task_to_markdown(task, env)
    IN /\ run_cmd.pc = "process"
       /\ IF outcome = OK
          THEN /\ db' = mark_task_completed(db, task.task_id, TaskMarkdownPath(task.task_id))
               /\ run_cmd' = [run_cmd EXCEPT !.pc = "fetch", !.next_task = NULL,
                                             !.processed_tasks_count = @ + 1]
          ELSE /\ db' = mark_task_failed(db, task.task_id, outcome)
               /\ run_cmd' = [run_cmd EXCEPT !.pc = "aborted", !.next_task = NULL,
                                             !.failed_tasks_count = @ + 1]
       /\ files' = IF outcome = OK
                   THEN [files EXCEPT ![task.task_id] = Some(inferred_markdown)]
                   ELSE files
       /\ finished_ids' = finished_ids \cup {task.task_id}
       /\ completed_log' = IF outcome = OK THEN FirstCompleted(task.task_id)
                                             ELSE completed_log
       /\ UNCHANGED <<merged_markdown, conversion, connect_call, last_call, enqueue_cmd, enqueue_log, ever_assigned, running_log,
                      other_run_cmd>>

\* The loop body with the `if fail_fast: raise` line removed: a failure is
\* counted and the loop goes on, fail-fast or not.
RunProcessIgnoresFailFast ==
  \E env \in ProducerInputs, inferred_markdown \in OcrTexts :
    LET task == run_cmd.next_task[1]
        outcome == _process_task_to_markdown(task, env)
    IN /\ run_cmd.pc = "process"
       /\ IF outcome = OK
          THEN /\ db' = mark_task_completed(db, task.task_id, TaskMarkdownPath(task.task_id))
               /\ run_cmd' = [run_cmd EXCEPT !.pc = "fetch", !.next_task = NULL,
                                             !.processed_tasks_count = @ + 1]
          ELSE /\ db' = mark_task_failed(db, task.task_id, outcome)
               /\ run_cmd' = [run_cmd EXCEPT !.pc = "fetch", !.next_task = NULL]
       /\ files' = IF outcome = OK
                   THEN [files EXCEPT ![task.task_id] = Some(inferred_markdown)]
                   ELSE files
       /\ finished_ids' = finished_ids \cup {task.task_id}
       /\ completed_log' = IF outcome = OK THEN FirstCompleted(task.task_id)
                                             ELSE completed_log
       /\ UNCHANGED <<merged_markdown, conversion, connect_call, last_call, enqueue_cmd, enqueue_log, ever_assigned, running_log,
                      other_run_cmd>>

\* The try/except of the loop body: the producer, then mark_task_completed,
\* or mark_task_failed with repr(exception) and, under fail_fast, the raise
\* that ends the command (its locals are gone then).  The producer writes
\* the text it inferred to the task's artifact file before it returns.
RunProcess ==
  \E env \in ProducerInputs, inferred_markdown \in OcrTexts :
    LET task == run_cmd.next_task[1]
        outcome == _process_task_to_markdown(task, env)
    IN /\ run_cmd.pc = "process"
       /\ IF outcome = OK
          THEN /\ db' = mark_task_completed(db, task.task_id, TaskMarkdownPath(task.task_id))
               /\ run_cmd' = [run_cmd EXCEPT !.pc = "fetch", !.next_task = NULL,
                                             !.processed_tasks_count = @ + 1]
          ELSE /\ db' = mark_task_failed(db, task.task_id, outcome)
               /\ run_cmd' = IF run_cmd.fail_fast
                              THEN [RunIdle EXCEPT !.pc = "aborted"]
                              ELSE [run_cmd EXCEPT !.pc = "fetch", !.next_task = NULL,
                                                   !.failed_tasks_count = @ + 1]
       /\ files' = IF outcome = OK
                   THEN [files EXCEPT ![task.task_id] = Some(inferred_markdown)]
                   ELSE files
       /\ finished_ids' = finished_ids \cup {task.task_id}
       /\ completed_log' = IF outcome = OK THEN FirstCompleted(task.task_id)
                                             ELSE completed_log
       /\ UNCHANGED <<merged_markdown, conversion, connect_call, last_call, enqueue_cmd, enqueue_log, ever_assigned, running_log,
                      other_run_cmd>>

\* After the loop: fetch_tasks_in_enqueue_order and the merge, with the
\* delimiter style the environment names; the command ends and its locals
\* are gone.
RunMerge ==
  \E math_delimiter_style \in MathDelimiterStyles :
    /\ run_cmd.pc = "merge"
    /\ merged_markdown' =
         Some(merge_tasks_into_single_markdown(fetch_tasks_in_enqueue_order(db),
                                               files, math_delimiter_style))
    /\ run_cmd' = [RunIdle EXCEPT !.pc = "done", !.merge_calls = 1]
    /\ UNCHANGED <<db, last_call, enqueue_cmd, history, files, conversion, connect_call,
                      other_run_cmd>>

\* ------------------------------------- the run command on a failing store
\* What the attempts of one _connect call may do while a run command is
\* under way: connect after two disk I/O errors, or fail with disk I/O
\* errors throughout.
ConnectScenarios ==
  { [i \in 1..DEFAULT_SQLITE_CONNECT_MAX_RETRIES |->
       IF i <= 2 THEN DISK_IO_ERROR ELSE CONNECTED],
    [i \in 1..DEFAULT_SQLITE_CONNECT_MAX_RETRIES |-> DISK_IO_ERROR] }

\* The scenarios in which _connect raises.
RaisingScenarios == {outcomes \in ConnectScenarios : _connect(outcomes).raised # NULL}

\* The record of a _connect call made by the method op.
ConnectCall(op, outcomes) ==
  LET result == _connect(outcomes)
  IN Some([op |-> op, outcomes |-> outcomes, raised |-> result.raised,
           attempts |-> result.attempts, sleeps |-> result.sleeps])

\* fetch_next_pending_task raises: nothing in _run_run_command catches it,
\* the command ends.
RunFetchRaises ==
  \E outcomes \in RaisingScenarios :
    /\ run_cmd.pc = "fetch"
    /\ connect_call' = ConnectCall("fetch_next_pending_task", outcomes)
    /\ run_cmd' = [RunIdle EXCEPT !.pc = "aborted"]
    /\ UNCHANGED <<db, last_call, enqueue_cmd, history, artifacts, conversion,
                      other_run_cmd>>

\* mark_task_running raises, before the try: the command ends.
RunMarkRunningRaises ==
  \E outcomes \in RaisingScenarios :
    /\ run_cmd.pc = "mark"
    /\ connect_call' = ConnectCall("mark_task_running", outcomes)
    /\ run_cmd' = [RunIdle EXCEPT !.pc = "aborted"]
    /\ UNCHANGED <<db, last_call, enqueue_cmd, history, artifacts, conversion,
                      other_run_cmd>>

\* The producer returns and mark_task_completed raises, inside the try: the
\* except clause takes the exception for the task's, calls mark_task_failed
\* with its repr, which opens a connection of its own and may raise in turn,
\* counts the failure and, unless fail_fast, goes on with the loop.
RunMarkCompletedRaises ==
  \E env \in ProducerInputs, inferred_markdown \in OcrTexts,
     outcomes \in RaisingScenarios, outcomes_in_except \in ConnectScenarios :
    LET task == run_cmd.next_task[1]
        exception == _connect(outcomes).raised[1]
        marked == _connect(outcomes_in_except).raised = NULL
    IN /\ run_cmd.pc = "process"
       /\ _process_task_to_markdown(task, env) = OK
       /\ files' = [files EXCEPT ![task.task_id] = Some(inferred_markdown)]
       /\ connect_call' = ConnectCall("mark_task_completed", outcomes)
       /\ db' = IF marked THEN mark_task_failed(db, task.task_id, exception) ELSE db
       /\ run_cmd' = IF marked /\ ~run_cmd.fail_fast
                     THEN [run_cmd EXCEPT !.pc = "fetch", !.next_task = NULL,
                                          !.failed_tasks_count = @ + 1]
                     ELSE [RunIdle EXCEPT !.pc = "aborted"]
       /\ finished_ids' = IF marked THEN finished_ids \cup {task.task_id}
                                    ELSE finished_ids
       /\ UNCHANGED <<merged_markdown, conversion, last_call, enqueue_cmd,
                      enqueue_log, ever_assigned, running_log, completed_log,
                      other_run_cmd>>

\* The producer raises and mark_task_failed raises in the except clause: the
\* command ends with the task left Running.
RunMarkFailedRaises ==
  \E env \in ProducerInputs, outcomes \in RaisingScenarios :
    LET task == run_cmd.next_task[1]
    IN /\ run_cmd.pc = "process"
       /\ _process_task_to_markdown(task, env) # OK
       /\ connect_call' = ConnectCall("mark_task_failed", outcomes)
       /\ run_cmd' = [RunIdle EXCEPT !.pc = "aborted"]
       /\ UNCHANGED <<db, last_call, enqueue_cmd, history, artifacts, conversion,
                      other_run_cmd>>

\* -------------------------------------------------------- the reset command
\* _run_reset_command: without --yes it returns at once; with
\* --delete-outputs the output directory and the merged file are removed
\* unless the directory is an unsafe deletion target.
_run_reset_command(yes, delete_outputs, unsafe_target) ==
  /\ db' = IF yes THEN delete_all_tasks(initialize(db)).db ELSE db
  /\ enqueue_log' = IF yes THEN <<>> ELSE enqueue_log
  /\ completed_log' = IF yes THEN <<>> ELSE completed_log
  /\ IF yes /\ delete_outputs /\ ~unsafe_target
     THEN /\ files' = [task_id \in TaskIds |-> NULL]
          /\ merged_markdown' = NULL
     ELSE UNCHANGED artifacts
  /\ UNCHANGED <<last_call, enqueue_cmd, run_cmd, ever_assigned, running_log,
                 finished_ids, conversion, connect_call, other_run_cmd>>

ResetCommand ==
  \E yes \in BOOLEAN, delete_outputs \in BOOLEAN, unsafe_target \in BOOLEAN :
    _run_reset_command(yes, delete_outputs, unsafe_target)

\* ------------------------------------------------------- the status command
\* _run_status_command: initialize, then the counts of fetch_status_counts
\* are printed.
StatusCommand ==
  /\ db' = initialize(db)
  /\ UNCHANGED <<last_call, enqueue_cmd, run_cmd, history, artifacts, conversion,
                 connect_call, other_run_cmd>>

Next ==
  \/ EnqueueStart
  \/ EnqueuePdf
  \/ RunStart
  \/ RunFetch
  \/ RunMarkRunning
  \/ RunProcess
  \/ RunMerge
  \/ ResetCommand
  \/ StatusCommand

\* Enqueue and reset commands at any time, run commands one after the other.
Spec == Init /\ [][Next]_vars


\* --------------------------------------------------- draining a fixed queue
\* An enqueue command starts only before the first run command.
DrainEnqueueStart == run_cmd.pc = "idle" /\ EnqueueStart

\* A run command starts only when no enqueue command is under way, so nothing
\* is enqueued once a loop runs.
DrainRunStart == enqueue_cmd.pc = "idle" /\ RunStart

NextDrain ==
  \/ DrainEnqueueStart
  \/ EnqueuePdf
  \/ DrainRunStart
  \/ RunFetch
  \/ RunMarkRunning
  \/ RunProcess
  \/ RunMerge

\* The loop is one thread whose store calls return and whose producer returns
\* or raises: each of its steps is taken once it is enabled.
SpecDrain ==
  /\ Init
  /\ [][NextDrain]_vars
  /\ WF_vars(RunFetch)
  /\ WF_vars(RunMarkRunning)
  /\ WF_vars(RunProcess)

\* ------------------------------------------- one enqueue command, then runs
\* The enqueue command on a store that does not exist yet: the only one.
FirstEnqueueStart == ~db.table /\ EnqueueStart

NextEndToEnd ==
  \/ FirstEnqueueStart
  \/ EnqueuePdf
  \/ DrainRunStart
  \/ RunFetch
  \/ RunMarkRunning
  \/ RunProcess
  \/ RunMerge

SpecEndToEnd == Init /\ [][NextEndToEnd]_vars

\* ------------------------------- two run commands at once on the same store
\* A second process runs _run_run_command once on the same store file.  Each
\* queue operation of either process is one transaction of its own
\* connection; nothing else orders the steps of the two loops.
OtherRunStart ==
  \E fail_fast \in BOOLEAN :
    /\ other_run_cmd.pc = "idle"
    /\ enqueue_cmd.pc = "idle"
    /\ db' = initialize(db)
    /\ other_run_cmd' = [RunIdle EXCEPT !.pc = "fetch", !.fail_fast = fail_fast]
    /\ UNCHANGED <<artifacts, conversion, connect_call, last_call, enqueue_cmd, history,
                   run_cmd>>

\* next_task = fetch_next_pending_task(); break when it is None.
OtherRunFetch ==
  LET next_task == fetch_next_pending_task(db)
  IN /\ other_run_cmd.pc = "fetch"
     /\ other_run_cmd' = [other_run_cmd EXCEPT
                            !.pc = IF next_task = NULL THEN "merge" ELSE "mark",
                            !.next_task = next_task]
     /\ UNCHANGED <<artifacts, conversion, connect_call, db, last_call, enqueue_cmd,
                    history, run_cmd>>

\* queue_store.mark_task_running(next_task.task_id)
OtherRunMarkRunning ==
  LET task == other_run_cmd.next_task[1]
  IN /\ other_run_cmd.pc = "mark"
     /\ Len(running_log) <= MaxTaskId
     /\ db' = mark_task_running(db, task.task_id)
     /\ other_run_cmd' = [other_run_cmd EXCEPT !.pc = "process"]
     /\ running_log' = Append(running_log, task.task_id)
     /\ UNCHANGED <<artifacts, conversion, connect_call, last_call, enqueue_cmd,
                    enqueue_log, ever_assigned, finished_ids, completed_log, run_cmd>>

\* The try/except of the loop body, as in RunProcess.
OtherRunProcess ==
  \E env \in ProducerInputs, inferred_markdown \in OcrTexts :
    LET task == other_run_cmd.next_task[1]
        outcome == _process_task_to_markdown(task, env)
    IN /\ other_run_cmd.pc = "process"
       /\ IF outcome = OK
          THEN /\ db' = mark_task_completed(db, task.task_id, TaskMarkdownPath(task.task_id))
               /\ other_run_cmd' = [other_run_cmd EXCEPT !.pc = "fetch", !.next_task = NULL,
                                                         !.processed_tasks_count = @ + 1]
          ELSE /\ db' = mark_task_failed(db, task.task_id, outcome)
               /\ other_run_cmd' = IF other_run_cmd.fail_fast
                                    THEN [RunIdle EXCEPT !.pc = "aborted"]
                                    ELSE [other_run_cmd EXCEPT !.pc = "fetch",
                                                               !.next_task = NULL,
                                                               !.failed_tasks_count = @ + 1]
       /\ files' = IF outcome = OK
                   THEN [files EXCEPT ![task.task_id] = Some(inferred_markdown)]
                   ELSE files
       /\ finished_ids' = finished_ids \cup {task.task_id}
       /\ completed_log' = IF outcome = OK THEN FirstCompleted(task.task_id)
                                             ELSE completed_log
       /\ UNCHANGED <<merged_markdown, conversion, connect_call, last_call, enqueue_cmd,
                      enqueue_log, ever_assigned, running_log, run_cmd>>

\* After the loop: the merge, and the command ends.
OtherRunMerge ==
  \E math_delimiter_style \in MathDelimiterStyles :
    /\ other_run_cmd.pc = "merge"
    /\ merged_markdown' =
         Some(merge_tasks_into_single_markdown(fetch_tasks_in_enqueue_order(db),
                                               files, math_delimiter_style))
    /\ other_run_cmd' = [RunIdle EXCEPT !.pc = "done", !.merge_calls = 1]
    /\ UNCHANGED <<db, last_call, enqueue_cmd, history, files, conversion, connect_call,
                   run_cmd>>

\* The first process starts its one run command.
FirstRunStart == run_cmd.pc = "idle" /\ DrainRunStart

NextTwoLoops ==
  \/ FirstEnqueueStart
  \/ EnqueuePdf
  \/ FirstRunStart
  \/ RunFetch
  \/ RunMarkRunning
  \/ RunProcess
  \/ RunMerge
  \/ OtherRunStart
  \/ OtherRunFetch
  \/ OtherRunMarkRunning
  \/ OtherRunProcess
  \/ OtherRunMerge

\* One enqueue command, then one run command of each of two processes, in
\* any interleaving of their queue operations.
SpecTwoLoops == Init /\ [][NextTwoLoops]_vars

\* ------------------------------------------------- runs that may crash
\* The process of the run command dies inside the loop (killed, or out of
\* memory in the producer): its locals are gone and the store stays as the
\* last committed queue operation left it.
RunCrash ==
  /\ run_cmd.pc \in RunLoopPcs
  /\ run_cmd' = [RunIdle EXCEPT !.pc = "aborted"]
  /\ UNCHANGED <<db, last_call, enqueue_cmd, history, artifacts, conversion,
                 connect_call, other_run_cmd>>

\* reset --yes, the only command that calls delete_all_tasks.
ConfirmedReset ==
  \E delete_outputs \in BOOLEAN, unsafe_target \in BOOLEAN :
    /\ db.rows # {}
    /\ _run_reset_command(TRUE, delete_outputs, unsafe_target)

NextCrash ==
  \/ FirstEnqueueStart
  \/ EnqueuePdf
  \/ DrainRunStart
  \/ RunFetch
  \/ RunMarkRunning
  \/ RunProcess
  \/ RunMerge
  \/ RunCrash
  \/ ConfirmedReset

\* One enqueue command, then run commands one after the other, each of which
\* may crash, and resets.  A loop that has not crashed takes its next step:
\* its store calls return and its producer returns or raises.
SpecCrash ==
  /\ Init
  /\ [][NextCrash]_vars
  /\ WF_vars(RunFetch)
  /\ WF_vars(RunMarkRunning)
  /\ WF_vars(RunProcess)

\* ------------------------ one enqueue command on a directory with two PDFs
EnqueueStartTwoPdfs ==
  \E expanded_paths \in SeqsOf(TwoPdfPaths, 0, MaxPaths), created \in Times :
    ~db.table /\ EnqueueStartWith(expanded_paths, created)

NextEnqueueOrder ==
  \/ EnqueueStartTwoPdfs
  \/ EnqueuePdf
  \/ DrainRunStart
  \/ RunFetch
  \/ RunMarkRunning
  \/ RunProcess
  \/ RunMerge

SpecEnqueueOrder == Init /\ [][NextEnqueueOrder]_vars

\* ------------------------------------------------ the delimiter conversion
\* The lines, without their line break, that texts are made of: blank and
\* plain lines, inline and block spans, alone on a line or left open or
\* closed across lines, and fence lines, bare, of twice the length, with an
\* info string, or indented.
LineBodies ==
  { <<>>, <<"x">>, <<"$">>,
    <<"\\(", " ", "x", "\\)">>, <<"\\[", "x", " ", "\\]">>,
    <<"\\(">>, <<"\\)">>, <<"\\[">>, <<"\\]">>,
    <<BACKTICKS>>, <<TILDES>>, <<BACKTICKS, "x">>,
    <<BACKTICKS, BACKTICKS>>, <<TILDES, TILDES>>,
    <<" ", BACKTICKS>>, <<" ", TILDES>> }

\* The texts given to the conversion: every sequence of up to MaxTextLen
\* tokens, and every text of up to MaxLines of the lines above, the last one
\* with or without its line break.
Texts ==
  SeqsOf(TextTokens, 0, MaxTextLen)
    \cup {join(<<"\n">>, bodies) \o last_break :
            bodies \in SeqsOf(LineBodies, 1, MaxLines),
            last_break \in {<<>>, <<"\n">>}}

InitConvert ==
  /\ db = [table |-> FALSE, rows |-> {}, seq |-> 0]
  /\ last_call = NoCall
  /\ enqueue_cmd = EnqueueIdle
  /\ run_cmd = RunIdle
  /\ enqueue_log = <<>>
  /\ ever_assigned = {}
  /\ running_log = <<>>
  /\ finished_ids = {}
  /\ completed_log = <<>>
  /\ files = [task_id \in TaskIds |-> NULL]
  /\ merged_markdown = NULL
  /\ markdown_text \in Texts
  /\ converted_text = NULL
  /\ connect_call = NULL
  /\ other_run_cmd = RunIdle

\* _post_process_task_markdown applied to the text under the configured
\* delimiter style.
PostProcessTaskMarkdown ==
  \E environment \in EnvironmentValues :
    LET post_processing_settings == from_environment(environment)
    IN /\ converted_text = NULL
       /\ converted_text' =
            Some([environment |-> environment,
                  math_delimiter_style |->
                    post_processing_settings.math_delimiter_style,
                  text |-> _post_process_task_markdown(
                             markdown_text,
                             post_processing_settings.math_delimiter_style)])
       /\ UNCHANGED <<db, last_call, enqueue_cmd, run_cmd, history, artifacts,
                      markdown_text, connect_call, other_run_cmd>>

NextConvert == PostProcessTaskMarkdown

SpecConvert == InitConvert /\ [][NextConvert]_vars

\* ------------------------------------------ runs on a store that may fail
NextStoreFailure ==
  \/ FirstEnqueueStart
  \/ EnqueuePdf
  \/ DrainRunStart
  \/ RunFetch
  \/ RunFetchRaises
  \/ RunMarkRunning
  \/ RunMarkRunningRaises
  \/ RunProcess
  \/ RunMarkCompletedRaises
  \/ RunMarkFailedRaises
  \/ RunMerge

\* One enqueue command, then run commands whose queue operations may fail to
\* open the store.
SpecStoreFailure == Init /\ [][NextStoreFailure]_vars

\* --------------------------------------------------- connection acquisition
\* A method of the store opens its connection: _connect runs against what
\* the successive sqlite3.connect calls do.  One call is followed.
Connect ==
  \E op \in ConnectingOps,
     outcomes \in [1..DEFAULT_SQLITE_CONNECT_MAX_RETRIES -> ConnectOutcomes] :
    LET result == _connect(outcomes)
    IN /\ connect_call = NULL
       /\ connect_call' = Some([op |-> op, outcomes |-> outcomes,
                                raised |-> result.raised,
                                attempts |-> result.attempts,
                                sleeps |-> result.sleeps])
       /\ UNCHANGED <<db, last_call, enqueue_cmd, run_cmd, history, artifacts,
                      conversion, other_run_cmd>>

NextConnect == Connect

SpecConnect == Init /\ [][NextConnect]_vars

\* ------------------------------------------------------------ claim helpers
TerminalStatuses == {TASK_STATUS_COMPLETED, TASK_STATUS_FAILED}

PendingRows == {r \in db.rows : r.status = TASK_STATUS_PENDING}

Range(s) == {s[i] : i \in 1..Len(s)}

\* What the enqueue history records of a row.
Enqueued(r) ==
  [task_kind |-> r.task_kind, source_path |-> r.source_path,
   pdf_page_index |-> r.pdf_page_index]

\* ------------------------------------------------------------------ claims

\* C1: whatever enqueue_image_tasks and enqueue_pdf_page_tasks calls were
\* made, fetch_tasks_in_enqueue_order returns every task of the table, with
\* strictly increasing task_id, in the order of the calls: earlier calls
\* first, images in the order of the given paths, PDF pages 0..n-1.
C1_ListingIsEnqueueOrder ==
  last_call.op = "fetch_tasks_in_enqueue_order" =>
    LET listed == last_call.ret
    IN /\ StrictlyIncreasing([i \in 1..Len(listed) |-> listed[i].task_id])
       /\ Range(listed) = db.rows
       /\ Len(listed) = Cardinality(db.rows)
       /\ [i \in 1..Len(listed) |-> Enqueued(listed[i])] = enqueue_log

\* C1 witness: a listing of three tasks from two calls, a two-page PDF and
\* then an image.
C1_Witness ==
  /\ last_call.op = "fetch_tasks_in_enqueue_order"
  /\ Len(last_call.ret) = 3
  /\ last_call.ret[1].pdf_page_index = Some(0)
  /\ last_call.ret[2].pdf_page_index = Some(1)
  /\ last_call.ret[3].task_kind = TASK_KIND_IMAGE

\* C2: in every state fetch_next_pending_task returns the Pending task with
\* the smallest task_id, none exactly when no task is Pending, and never a
\* task that was marked Running and then Completed or Failed.
C2_FetchSmallestPendingNeverFinished ==
  LET got == fetch_next_pending_task(db)
  IN /\ (got = NULL) <=> (PendingRows = {})
     /\ got # NULL =>
          /\ got[1] \in PendingRows
          /\ \A r \in PendingRows : got[1].task_id <= r.task_id
          /\ got[1].task_id \notin finished_ids
     /\ run_cmd.next_task # NULL => run_cmd.next_task[1].task_id \notin finished_ids

\* C2 witness: the loop holds a freshly fetched task while an earlier task
\* is finished and a later one is Pending.
C2_Witness ==
  /\ run_cmd.pc = "mark"
  /\ finished_ids # {}
  /\ \E r \in PendingRows : r.task_id > run_cmd.next_task[1].task_id

\* C3: a task's status changes only Pending -> Running, Running -> Completed
\* or Running -> Failed.
C3_StatusTransitions ==
  [][\A r \in db.rows : \A q \in db'.rows :
       q.task_id = r.task_id =>
         \/ q.status = r.status
         \/ <<r.status, q.status>> \in
              {<<TASK_STATUS_PENDING, TASK_STATUS_RUNNING>>,
               <<TASK_STATUS_RUNNING, TASK_STATUS_COMPLETED>>,
               <<TASK_STATUS_RUNNING, TASK_STATUS_FAILED>>}]_vars

\* C3 witness: the store holds a Completed, a Failed and a Running task.
C3_Witness ==
  /\ \E r \in db.rows : r.status = TASK_STATUS_COMPLETED
  /\ \E r \in db.rows : r.status = TASK_STATUS_FAILED
  /\ \E r \in db.rows : r.status = TASK_STATUS_RUNNING

\* C4: for every task, output_markdown_path is non-null iff the status is
\* Completed and error_message is non-null iff the status is Failed.
C4_OutputIffCompletedErrorIffFailed ==
  \A r \in db.rows :
    /\ (r.output_markdown_path # NULL) <=> (r.status = TASK_STATUS_COMPLETED)
    /\ (r.error_message # NULL) <=> (r.status = TASK_STATUS_FAILED)

\* C4 witness: a Failed task with its message beside a Completed task with
\* its path.
C4_Witness ==
  /\ \E r \in db.rows : r.status = TASK_STATUS_FAILED /\ r.error_message # NULL
  /\ \E r \in db.rows : r.status = TASK_STATUS_COMPLETED /\ r.output_markdown_path # NULL

\* C5: after any sequence of mark_task_completed and mark_task_failed calls
\* on a task the last call decides both fields: Completed means a path and
\* no error, Failed means an error and no path.
C5_LastMarkDecidesBothFields ==
  \A r \in db.rows :
    /\ r.status = TASK_STATUS_COMPLETED =>
         r.output_markdown_path # NULL /\ r.error_message = NULL
    /\ r.status = TASK_STATUS_FAILED =>
         r.error_message # NULL /\ r.output_markdown_path = NULL

\* C6: a task_id is never assigned twice: every insert gives ids that are new,
\* one per added row, and larger than every id the table has ever held, also
\* after delete_all_tasks and after another initialize.
C6_TaskIdNeverReused ==
  [][LET new_ids == RowIds(db'.rows) \ RowIds(db.rows)
     IN /\ \A id \in new_ids : \A old \in ever_assigned : id > old
        /\ last_call'.op \in {"enqueue_image_tasks", "enqueue_pdf_page_tasks"} =>
             Cardinality(db'.rows) = Cardinality(db.rows) + last_call'.ret[1]
        /\ Cardinality(RowIds(db'.rows)) = Cardinality(db'.rows)]_vars

\* C6 witness: tasks inserted after delete_all_tasks emptied a table that
\* had held tasks, with initialize called again since.
C6_Witness ==
  /\ last_call.op = "initialize"
  /\ db.rows # {}
  /\ ever_assigned \ RowIds(db.rows) # {}

\* C7: the loop marks tasks Running in strictly ascending task_id order, and
\* whenever it holds a fetched task every task it marked Running before is
\* Completed or Failed.
C7_RunningInAscendingOrderOneAtATime ==
  LET before == IF run_cmd.pc = "process"
                THEN SubSeq(running_log, 1, Len(running_log) - 1)
                ELSE running_log
  IN /\ StrictlyIncreasing(running_log)
     /\ run_cmd.pc \in {"mark", "process"} =>
          \A r \in db.rows : r.task_id \in Range(before) => r.status \in TerminalStatuses

\* C7 witness: the loop processes its second task while an enqueue command
\* is under way.
C7_Witness ==
  /\ Len(running_log) >= 2
  /\ run_cmd.pc = "process"
  /\ enqueue_cmd.pc = "pdfs"
  /\ \E r \in db.rows : r.task_id = running_log[1]

StatusOf(task_id) ==
  IF task_id \in RowIds(db.rows)
  THEN (CHOOSE r \in db.rows : r.task_id = task_id).status
  ELSE "absent"

\* C9: with fail-fast off and nothing enqueued meanwhile the loop ends (by
\* its break, which leads to the merge), and once it has ended no task is
\* Pending: every task is Completed or Failed.
C9_LoopDrainsQueue ==
  /\ [](run_cmd.pc \in RunLoopPcs /\ ~run_cmd.fail_fast => <>(run_cmd.pc = "merge"))
  /\ [](run_cmd.pc = "merge" /\ ~run_cmd.fail_fast =>
          \A r \in db.rows : r.status \in TerminalStatuses)

\* C9 witness: the loop of a run without fail-fast has ended on a store of
\* three tasks, some Completed and some Failed.
C9_Witness ==
  /\ run_cmd.pc = "merge"
  /\ ~run_cmd.fail_fast
  /\ Cardinality(db.rows) = 3
  /\ run_cmd.processed_tasks_count >= 1
  /\ run_cmd.failed_tasks_count >= 1

\* C10: with fail-fast off, when the producer fails on a task the step that
\* counts the failure leaves that task Failed with a non-null error message
\* and the loop at its next fetch; and a task that is Pending while an
\* earlier task is Failed and the loop runs is marked Running later on.
C10_FailureDoesNotStopLoop ==
  /\ [][(run_cmd.pc = "process" /\ ~run_cmd.fail_fast
          /\ run_cmd'.failed_tasks_count = run_cmd.failed_tasks_count + 1) =>
         /\ run_cmd'.pc = "fetch"
         /\ \E r \in db'.rows :
              /\ r.task_id = run_cmd.next_task[1].task_id
              /\ r.status = TASK_STATUS_FAILED
              /\ r.error_message # NULL]_vars
  /\ \A i \in TaskIds : \A j \in TaskIds :
       [](/\ i < j
          /\ run_cmd.pc \in RunLoopPcs
          /\ ~run_cmd.fail_fast
          /\ StatusOf(i) = TASK_STATUS_FAILED
          /\ StatusOf(j) = TASK_STATUS_PENDING
          => <>(StatusOf(j) \in {TASK_STATUS_RUNNING} \cup TerminalStatuses))

\* C10 witness: in a run without fail-fast a PDF page failed because its
\* index is out of range and the loop is processing a later task.
C10_Witness ==
  /\ run_cmd.pc = "process"
  /\ ~run_cmd.fail_fast
  /\ run_cmd.failed_tasks_count >= 1
  /\ \E r \in db.rows :
       /\ r.status = TASK_STATUS_FAILED
       /\ r.error_message = Some(ERR_PAGE_OUT_OF_RANGE)
       /\ r.task_id < run_cmd.next_task[1].task_id

\* C11: with fail-fast on, the first producer failure of a run ends its loop:
\* the step that handles it leaves the failing task Failed with an error
\* message in the store, every other row as it was (so every Pending task
\* still Pending) and the command aborted; and the aborted run marks no task
\* Running and changes no row afterwards: the next step is the start of
\* another run command, which changes no row either.
C11_FailFastAbortsAfterPersistingFailure ==
  /\ [](run_cmd.fail_fast => run_cmd.failed_tasks_count = 0)
  /\ [][(/\ run_cmd.pc = "process"
         /\ run_cmd.fail_fast
         /\ \E r \in db'.rows : /\ r.task_id = run_cmd.next_task[1].task_id
                                /\ r.status = TASK_STATUS_FAILED) =>
         /\ run_cmd'.pc = "aborted"
         /\ running_log' = running_log
         /\ \E r \in db'.rows :
              /\ r.task_id = run_cmd.next_task[1].task_id
              /\ r.error_message # NULL
         /\ \A r \in db.rows :
              r.task_id # run_cmd.next_task[1].task_id => r \in db'.rows
         /\ RowIds(db'.rows) = RowIds(db.rows)]_vars
  /\ [][run_cmd.pc = "aborted" =>
         /\ run_cmd'.pc = "fetch"
         /\ db'.rows = db.rows
         /\ running_log' = running_log]_vars

\* C11 witness: a fail-fast run was aborted by the failure of the second
\* task, after the first was Completed, and the third is still Pending.
C11_Witness ==
  /\ run_cmd.pc = "aborted"
  /\ running_log = <<1, 2>>
  /\ StatusOf(1) = TASK_STATUS_COMPLETED
  /\ StatusOf(2) = TASK_STATUS_FAILED
  /\ StatusOf(3) = TASK_STATUS_PENDING

\* C12: a run command that has ended, by the break on an empty queue or by a
\* fail-fast abort, has called the merge exactly once.
C12_MergeOnceAfterLoopStopped ==
  run_cmd.pc \in {"done", "aborted"} => run_cmd.merge_calls = 1

\* The artifact directories a merge can find: per task_id no file, or a file
\* holding one of the OCR texts.
FileSystems == [TaskIds -> {NULL} \cup {Some(text) : text \in OcrTexts}]

\* What the task of row r contributes when it is merged alone.
Contribution(r, fs, math_delimiter_style) ==
  MergeTask(<<>>, r, fs, math_delimiter_style)

RECURSIVE Contributions(_, _, _)
Contributions(tasks, fs, math_delimiter_style) ==
  IF tasks = <<>> THEN <<>>
  ELSE Contribution(Head(tasks), fs, math_delimiter_style)
         \o Contributions(Tail(tasks), fs, math_delimiter_style)

\* C13: whatever listing fetch_tasks_in_enqueue_order returns and whatever
\* artifact files exist, the merge of that listing is the title followed by
\* the contributions of the table's rows in ascending task_id order; the
\* order in which the tasks were completed plays no part.
C13_SectionsInAscendingTaskIdOrder ==
  last_call.op = "fetch_tasks_in_enqueue_order" =>
    \A fs \in FileSystems : \A math_delimiter_style \in MathDelimiterStyles :
      merged_lines_of(last_call.ret, fs, math_delimiter_style)
        = << <<"# OCR Output">>, <<>> >>
            \o Contributions(OrderByTaskIdAsc(db.rows), fs, math_delimiter_style)

\* C13 witness: task 3 was completed before task 1, both have a non-blank
\* artifact, and the merge of the listing puts the section of task 1 (its
\* header is line 3) before the section of task 3.
C13_Witness ==
  LET fs == [task_id \in TaskIds |-> Some(<<"\\(", "x", "\\)", "\n">>)]
      lines == merged_lines_of(last_call.ret, fs, MATH_DELIMITER_STYLE_DOLLAR)
  IN /\ last_call.op = "fetch_tasks_in_enqueue_order"
     /\ completed_log = <<3, 1>>
     /\ \E r1 \in db.rows : \E r3 \in db.rows :
          /\ r1.task_id = 1 /\ r3.task_id = 3
          /\ r1.source_path # r3.source_path
          /\ Len(lines) = 16
          /\ lines[3] = _render_task_header_lines(r1)[1]
          /\ lines[10] = _render_task_header_lines(r3)[1]

\* The three conditions under which the merge uses a task's artifact: the
\* row names an output path, the file is there, and its text is not blank.
HasUsableArtifact(task, fs) ==
  /\ task.output_markdown_path # NULL
  /\ read_text(fs, task.output_markdown_path[1]) # NULL
  /\ strip(read_text(fs, task.output_markdown_path[1])[1], WhitespaceTokens) # <<>>

\* C14: for every listed task and every set of artifact files, the task
\* merged alone adds its section (the header line, the processed content and
\* the --- separator) when it has a usable artifact and adds no line at all
\* otherwise; and the merge of the whole listing has seven lines per task
\* with a usable artifact after the two title lines.
C14_SectionIffUsableArtifact ==
  last_call.op = "fetch_tasks_in_enqueue_order" =>
    \A fs \in FileSystems : \A math_delimiter_style \in MathDelimiterStyles :
      /\ \A i \in 1..Len(last_call.ret) :
           LET task == last_call.ret[i]
               lines == merged_lines_of(<<task>>, fs, math_delimiter_style)
           IN IF HasUsableArtifact(task, fs)
              THEN /\ Len(lines) = 9
                   /\ lines[3] = _render_task_header_lines(task)[1]
                   /\ lines[6] = _post_process_task_markdown(
                                    read_text(fs, task.output_markdown_path[1])[1],
                                    math_delimiter_style)
                   /\ lines[8] = <<"---">>
                   /\ \A j \in {4, 5, 7, 9} : lines[j] = <<>>
              ELSE lines = << <<"# OCR Output">>, <<>> >>
      /\ Len(merged_lines_of(last_call.ret, fs, math_delimiter_style))
           = 2 + 7 * Cardinality({i \in 1..Len(last_call.ret) :
                                    HasUsableArtifact(last_call.ret[i], fs)})

\* C14 witness: three Completed tasks are listed; with the artifact of task 1
\* deleted, that of task 2 blank and that of task 3 holding text, the merge
\* has the section of task 3 only.
C14_Witness ==
  LET fs == [task_id \in TaskIds |->
               IF task_id = 1 THEN NULL
               ELSE IF task_id = 2 THEN Some(<<" ", "\n">>)
               ELSE Some(<<"\\(", "x", "\\)", "\n">>)]
      lines == merged_lines_of(last_call.ret, fs, MATH_DELIMITER_STYLE_DOLLAR)
  IN /\ last_call.op = "fetch_tasks_in_enqueue_order"
     /\ Len(last_call.ret) = 3
     /\ \A i \in 1..3 : last_call.ret[i].status = TASK_STATUS_COMPLETED
     /\ Len(lines) = 9
     /\ lines[3] = _render_task_header_lines(last_call.ret[3])[1]
     /\ lines[6] = <<"$", "x", "$", "\n">>

\* C15: whatever listing the store returns and whatever artifact files
\* exist, a listed task whose status is not Completed contributes no line to
\* the merge.
C15_OnlyCompletedTasksContribute ==
  last_call.op = "fetch_tasks_in_enqueue_order" =>
    \A fs \in FileSystems : \A math_delimiter_style \in MathDelimiterStyles :
      \A i \in 1..Len(last_call.ret) :
        last_call.ret[i].status # TASK_STATUS_COMPLETED =>
          Contribution(last_call.ret[i], fs, math_delimiter_style) = <<>>

\* The lines of a text that start a section, without their line break.
HeaderLinesOf(text) ==
  LET lines == splitlines(text)
      headers == SelectSeq(lines, LAMBDA line : line[1] = "## ")
  IN [i \in 1..Len(headers) |-> strip(headers[i], {"\n"})]

\* The header the end-to-end claim expects for a listed task: the path, and
\* for a PDF page its one-based number and the page count.
ExpectedHeader(task) ==
  IF task.task_kind = TASK_KIND_IMAGE
  THEN <<"## ", task.source_path.stem, task.source_path.suffix>>
  ELSE <<"## ", task.source_path.stem, task.source_path.suffix, " (page ">>
         \o str_int(task.pdf_page_index[1] + 1) \o <<"/">>
         \o str_int(task.pdf_total_pages[1]) \o <<")">>

\* A run command has just ended by its merge, no enqueue command is under
\* way, and the producer never failed: no row has an error message.
RunDoneWithoutFailure ==
  /\ run_cmd.pc = "done"
  /\ enqueue_cmd.pc = "idle"
  /\ \A r \in db.rows : r.error_message = NULL

\* Every artifact the producer wrote holds text that is not blank.
ArtifactsNotBlank ==
  \A task_id \in TaskIds :
    files[task_id] # NULL => strip(files[task_id][1], WhitespaceTokens) # <<>>

\* What the end-to-end claim expects of the store and the merged file: every
\* enqueued task is Completed, the status counts have the one key completed,
\* and the merged file has one section per task in enqueue order, the images
\* before the PDF pages and the pages of a PDF numbered 1/N to N/N.
EndToEndOutcome ==
  LET listing == fetch_tasks_in_enqueue_order(db)
      total == Len(enqueue_log)
      headers == HeaderLinesOf(merged_markdown[1])
  IN /\ Len(listing) = total
     /\ \A i \in 1..total : /\ listing[i].status = TASK_STATUS_COMPLETED
                             /\ Enqueued(listing[i]) = enqueue_log[i]
     /\ fetch_status_counts(db) = [status \in {TASK_STATUS_COMPLETED} |-> total]
     /\ merged_markdown # NULL
     /\ Len(headers) = total
     /\ \A i \in 1..total : headers[i] = ExpectedHeader(listing[i])
     /\ \A i \in 1..total : \A j \in 1..total :
          i < j /\ listing[j].task_kind = TASK_KIND_IMAGE =>
            listing[i].task_kind = TASK_KIND_IMAGE
     /\ \A i \in 1..total :
          listing[i].task_kind = TASK_KIND_PDF_PAGE =>
            LET page == listing[i].pdf_page_index[1]
                pages == listing[i].pdf_total_pages[1]
            IN /\ page < pages
               /\ page > 0 => /\ listing[i - 1].source_path = listing[i].source_path
                              /\ listing[i - 1].pdf_page_index = Some(page - 1)
               /\ page = 0 => \A k \in 1..(pages - 1) :
                                /\ i + k <= total
                                /\ listing[i + k].pdf_page_index = Some(k)

\* C16 as stated: after one enqueue command and runs whose producer always
\* succeeded with a non-empty text (every OCR text is non-empty), the
\* expected outcome holds.
C16_EndToEndAnyNonEmptyText ==
  RunDoneWithoutFailure => EndToEndOutcome

\* C16, amended: the same when at least one task was enqueued and every text
\* the producer returned is non-empty after trimming whitespace.
C16_EndToEndNonBlankText ==
  RunDoneWithoutFailure /\ ArtifactsNotBlank /\ db.rows # {} => EndToEndOutcome

\* C16 witness: a.png and the two-page c.pdf were enqueued and a run ended
\* with three Completed tasks, all with text.
C16_Witness ==
  /\ RunDoneWithoutFailure
  /\ ArtifactsNotBlank
  /\ Cardinality(db.rows) = 3
  /\ HeaderLinesOf(merged_markdown[1])
       = << <<"## ", "a", ".png">>,
            <<"## ", "c", ".pdf", " (page ", "1", "/", "2", ")">>,
            <<"## ", "c", ".pdf", " (page ", "2", "/", "2", ")">> >>

\* C17: in every state of the store, enqueue_pdf_page_tasks with a page count
\* of zero or less returns 0 and the store it leaves is the store it found;
\* and a call that returned 0 has added no row and changed none.
C17_NoPagesIsNoOp ==
  /\ [](\A pdf_file_path \in PdfPaths : \A pdf_total_pages \in {0 - 1, 0} :
          \A created \in Times :
            enqueue_pdf_page_tasks(db, pdf_file_path, pdf_total_pages, created)
              = [db |-> db, ret |-> 0])
  /\ [][last_call'.op = "enqueue_pdf_page_tasks" /\ last_call'.ret = Some(0) =>
          db' = db]_vars

\* C17 witness: the call returned 0 on a store that holds a Completed and a
\* Pending task.
C17_Witness ==
  /\ last_call.op = "enqueue_pdf_page_tasks"
  /\ last_call.ret = Some(0)
  /\ \E r \in db.rows : r.status = TASK_STATUS_COMPLETED
  /\ \E r \in db.rows : r.status = TASK_STATUS_PENDING

\* The rows a store call added.
AddedRows(old_db, new_db) == new_db.rows \ old_db.rows

\* The rows are n Pending pages of one PDF with page indexes 0..n-1 on
\* consecutive ascending task_ids, all with page count n and one timestamp.
IsPageRun(rows, n) ==
  /\ Cardinality(rows) = n
  /\ \E first \in RowIds(rows) : \E r0 \in rows :
       \A k \in 0..(n - 1) :
         \E r \in rows :
           /\ r.task_id = first + k
           /\ r.pdf_page_index = Some(k)
           /\ r.pdf_total_pages = Some(n)
           /\ r.task_kind = TASK_KIND_PDF_PAGE
           /\ r.status = TASK_STATUS_PENDING
           /\ r.source_path = r0.source_path
           /\ r.created_unix_timestamp_seconds = r0.created_unix_timestamp_seconds
           /\ r.output_markdown_path = NULL
           /\ r.error_message = NULL

\* C18: in every state of the store, enqueue_pdf_page_tasks with a page count
\* n > 0 returns n, keeps every row there was and adds n Pending pages of the
\* given PDF, indexes 0..n-1 on consecutive ascending task_ids above the old
\* ones, with page count n and the given timestamp; every call that returned
\* n > 0 has added such a run; and every pdf_page row has
\* 0 <= pdf_page_index < pdf_total_pages.
C18_PdfPagesEnqueuedAsOneRun ==
  /\ [](\A pdf_file_path \in PdfPaths : \A n \in 1..MaxPdfPages : \A created \in Times :
          LET out == enqueue_pdf_page_tasks(db, pdf_file_path, n, created)
              added == AddedRows(db, out.db)
          IN db.table =>
               /\ out.ret = n
               /\ db.rows \subseteq out.db.rows
               /\ IsPageRun(added, n)
               /\ \A r \in added :
                    /\ r.source_path = pdf_file_path
                    /\ r.created_unix_timestamp_seconds = created
                    /\ \A q \in db.rows : q.task_id < r.task_id)
  /\ [][last_call'.op = "enqueue_pdf_page_tasks" /\ last_call'.ret # Some(0) =>
          /\ db.rows \subseteq db'.rows
          /\ IsPageRun(AddedRows(db, db'), last_call'.ret[1])]_vars
  /\ [](\A r \in db.rows :
          r.task_kind = TASK_KIND_PDF_PAGE =>
            /\ 0 <= r.pdf_page_index[1]
            /\ r.pdf_page_index[1] < r.pdf_total_pages[1])

\* C18 witness: a call returned 2 on a store that held an image task, which
\* now holds the pages 0 and 1 of a two-page PDF as tasks 2 and 3.
C18_Witness ==
  /\ last_call.op = "enqueue_pdf_page_tasks"
  /\ last_call.ret = Some(2)
  /\ \E r \in db.rows : r.task_id = 1 /\ r.task_kind = TASK_KIND_IMAGE
  /\ \E r \in db.rows : /\ r.task_id = 2 /\ r.pdf_page_index = Some(0)
                         /\ r.pdf_total_pages = Some(2)
  /\ \E r \in db.rows : /\ r.task_id = 3 /\ r.pdf_page_index = Some(1)
                         /\ r.pdf_total_pages = Some(2)

\* C19: in every state of the store and for every list of image paths,
\* repeated paths and paths the store already holds included,
\* enqueue_image_tasks returns the number of paths, keeps every row there
\* was, and adds one row per path: the i-th new row in task_id order is above
\* every old row and is a Pending image task for the i-th path with the given
\* timestamp and null page index, page count, output path and error.
C19_OneImageTaskPerPath ==
  \A image_file_paths \in SeqsOf(ImagePaths, 0, MaxPaths) : \A created \in Times :
    LET out == enqueue_image_tasks(db, image_file_paths, created)
        added == OrderByTaskIdAsc(AddedRows(db, out.db))
    IN db.table =>
         /\ out.ret = Len(image_file_paths)
         /\ db.rows \subseteq out.db.rows
         /\ Len(added) = Len(image_file_paths)
         /\ \A i \in 1..Len(added) :
              /\ added[i].source_path = image_file_paths[i]
              /\ added[i].task_kind = TASK_KIND_IMAGE
              /\ added[i].status = TASK_STATUS_PENDING
              /\ added[i].pdf_page_index = NULL
              /\ added[i].pdf_total_pages = NULL
              /\ added[i].output_markdown_path = NULL
              /\ added[i].error_message = NULL
              /\ added[i].created_unix_timestamp_seconds = created
              /\ \A q \in db.rows : q.task_id < added[i].task_id

\* C19 witness: a call with the same path twice returned 2 on a store that
\* held a task for that path: tasks 1, 2 and 3 have one source_path.
C19_Witness ==
  /\ last_call.op = "enqueue_image_tasks"
  /\ last_call.ret = Some(2)
  /\ Cardinality(db.rows) = 3
  /\ \A r \in db.rows : \A q \in db.rows : r.source_path = q.source_path
  /\ \E r \in db.rows : r.task_id = 1 /\ r.status = TASK_STATUS_COMPLETED

\* A fence line: a line that starts, without indentation, with a run of
\* backticks or tildes.
IsFenceLine(line) == line # <<>> /\ FenceCharOf(line[1]) # ""

\* The text with its fenced code blocks kept and the conversion applied to
\* the stretches between them.  A block runs from a fence line through the
\* next fence line of the same character, or through the last line.
\* open_char is the character of the block the lines start in ("" when in
\* none), plain the lines since the last block.
RECURSIVE WithFencedBlocksKept(_, _, _)
WithFencedBlocksKept(lines, open_char, plain) ==
  IF lines = <<>>
  THEN _convert_latex_math_delimiters_to_dollar(plain)
  ELSE LET line == Head(lines)
       IN IF open_char = ""
          THEN IF IsFenceLine(line)
               THEN _convert_latex_math_delimiters_to_dollar(plain) \o line
                      \o WithFencedBlocksKept(Tail(lines), FenceCharOf(line[1]), <<>>)
               ELSE WithFencedBlocksKept(Tail(lines), "", plain \o line)
          ELSE line \o WithFencedBlocksKept(
                         Tail(lines),
                         IF IsFenceLine(line) /\ FenceCharOf(line[1]) = open_char
                         THEN "" ELSE open_char,
                         <<>>)

\* C20: in dollar mode every line of a fenced code block, from the opening
\* fence line through the closing one or through the end of the text, is in
\* the output as it was in the input: the output is the blocks, unchanged,
\* between the conversions of the stretches of text around them.
C20_FencedBlocksUnchanged ==
  (converted_text # NULL
     /\ converted_text[1].math_delimiter_style = MATH_DELIMITER_STYLE_DOLLAR) =>
    converted_text[1].text = WithFencedBlocksKept(splitlines(markdown_text), "", <<>>)

\* The lines of the text that are fence lines.
FenceLines(lines) == {i \in 1..Len(lines) : IsFenceLine(lines[i])}

\* C21: an indented fence-like line is ordinary text.  In dollar mode a text
\* without any fence line is converted as one stretch of plain markdown, the
\* spans after an indented fence-like line included; and a text whose first
\* line opens a fence that no later fence line of the same character closes
\* is emitted as it is, indented fence-like lines inside it notwithstanding.
C21_IndentedFenceIsOrdinaryText ==
  (converted_text # NULL
     /\ converted_text[1].math_delimiter_style = MATH_DELIMITER_STYLE_DOLLAR) =>
    LET lines == splitlines(markdown_text)
    IN /\ FenceLines(lines) = {} =>
            converted_text[1].text =
              _convert_latex_math_delimiters_in_plain_markdown(markdown_text)
       /\ (/\ 1 \in FenceLines(lines)
           /\ \A i \in FenceLines(lines) \ {1} :
                FenceCharOf(lines[i][1]) # FenceCharOf(lines[1][1])) =>
            converted_text[1].text = markdown_text

\* The tokens that open or close a math span or may start a fence.
DelimiterTokens == {"\\(", "\\)", "\\[", "\\]"}
FenceTokens == {BACKTICKS, TILDES}

\* The text is free of fences and holds exactly one span of the pattern and
\* no other delimiter: text before, the opening delimiter, a content of at
\* least one character, the closing delimiter, text after.
HasOneSpan(pattern, text) ==
  /\ \A i \in 1..Len(text) : text[i] \notin FenceTokens
  /\ Cardinality({i \in 1..Len(text) : text[i] \in DelimiterTokens}) = 2
  /\ search(pattern, text) # NULL

\* C22: in dollar mode, outside fences, a \[ ... \] span becomes a line $$,
\* then the content of the span trimmed of its surrounding whitespace on a
\* line of its own, then a line $$; the text around the span is unchanged.
C22_BlockSpanTrimmedOnOwnLine ==
  (/\ converted_text # NULL
   /\ converted_text[1].math_delimiter_style = MATH_DELIMITER_STYLE_DOLLAR
   /\ HasOneSpan(_BLOCK_LATEX_MATH_PATTERN, markdown_text)) =>
    LET found == search(_BLOCK_LATEX_MATH_PATTERN, markdown_text)[1]
        content == SubSeq(markdown_text, found.start + 1, found.end - 1)
    IN converted_text[1].text =
         SubSeq(markdown_text, 1, found.start - 1)
           \o <<"$$", "\n">> \o strip(content, WhitespaceTokens) \o <<"\n", "$$">>
           \o SubSeq(markdown_text, found.end + 1, Len(markdown_text))

\* The delimiters of the text are those of inline spans only, each span
\* opened, given a content of at least one character, and closed before the
\* next one opens; the text holds no fence.
RECURSIVE IsInlineSpansOnly(_)
IsInlineSpansOnly(text) ==
  LET open == FirstIndexIn(text, DelimiterTokens, 1)
      close == FirstIndexIn(text, DelimiterTokens, open + 1)
  IN /\ \A i \in 1..Len(text) : text[i] \notin FenceTokens
     /\ open # 0 =>
          /\ text[open] = "\\("
          /\ close > open + 1
          /\ text[close] = "\\)"
          /\ IsInlineSpansOnly(SubSeq(text, close + 1, Len(text)))

\* Such a text with each span replaced by its content, trimmed of
\* whitespace, between two dollar signs, and all else kept.
RECURSIVE InlineSpansRewritten(_)
InlineSpansRewritten(text) ==
  LET open == FirstIndexIn(text, {"\\("}, 1)
      close == FirstIndexIn(text, {"\\)"}, open + 1)
  IN IF open = 0 THEN text
     ELSE SubSeq(text, 1, open - 1)
            \o <<"$">>
            \o strip(SubSeq(text, open + 1, close - 1), WhitespaceTokens)
            \o <<"$">>
            \o InlineSpansRewritten(SubSeq(text, close + 1, Len(text)))

C24_ConfiguredModeDecidesTransform ==
  converted_text # NULL =>
    LET environment == converted_text[1].environment
    IN IF environment # NULL /\ environment[1] \in LatexSpellings
       THEN converted_text[1].text = markdown_text
       ELSE converted_text[1].text =
              _convert_latex_math_delimiters_to_dollar(markdown_text)

\* A text with a span has been rewritten under an unrecognized mode.
C24_Witness ==
  /\ converted_text # NULL
  /\ converted_text[1].environment # NULL
  /\ converted_text[1].environment[1] \in UnrecognizedValues \ {<<>>}
  /\ \E i \in 1..Len(markdown_text) : markdown_text[i] = "\\("
  /\ converted_text[1].text # markdown_text

\* The first attempt of the call that does not fail with a disk I/O error,
\* 0 when every attempt fails so.
FirstNotDiskIoError(outcomes) ==
  LET others == {i \in 1..Len(outcomes) : outcomes[i] # DISK_IO_ERROR}
  IN IF others = {} THEN 0 ELSE CHOOSE i \in others : \A j \in others : i <= j

\* C25: connection acquisition is a bounded retry.  Attempts are made as long
\* as they fail with a disk I/O error, with one sleep between two attempts,
\* and at most 5 of them: the 5th failure is raised after 4 sleeps.  The
\* first attempt that succeeds returns the connection, and the first that
\* fails otherwise raises its error, with no attempt and no sleep after it.
C25_ConnectIsBoundedRetry ==
  connect_call # NULL =>
    LET call == connect_call[1]
        k == FirstNotDiskIoError(call.outcomes)
    IN /\ call.attempts <= 5
       /\ call.sleeps = call.attempts - 1
       /\ IF k = 0
          THEN call.attempts = 5 /\ call.raised = Some(DISK_IO_ERROR)
          ELSE /\ call.attempts = k
               /\ call.raised = IF call.outcomes[k] = CONNECTED
                                THEN NULL
                                ELSE Some(call.outcomes[k])

\* A call whose five attempts all failed with a disk I/O error has raised it
\* after four sleeps.
C25_Witness ==
  /\ connect_call # NULL
  /\ connect_call[1].outcomes =
       [i \in 1..5 |-> DISK_IO_ERROR]
  /\ connect_call[1].raised = Some(DISK_IO_ERROR)
  /\ connect_call[1].attempts = 5
  /\ connect_call[1].sleeps = 4

\* C26: a store-level failure raised by fetch_next_pending_task,
\* mark_task_running, mark_task_completed or mark_task_failed inside the run
\* command ends the command, and is not recorded as a failure of the task:
\* the step in which the operation raises leaves the store as it was and the
\* command aborted.
C26_StoreFailureAbortsRun ==
  [][(RunFetchRaises \/ RunMarkRunningRaises \/ RunMarkCompletedRaises
        \/ RunMarkFailedRaises)
       => (run_cmd'.pc = "aborted" /\ db' = db)]_vars

\* C27: tasks are removed only by a confirmed reset, which removes all of
\* them.  On every store the commands reach, delete_all_tasks leaves no row
\* and returns the number of rows there were; a reset command without --yes
\* leaves the store as it is, one with --yes leaves it without rows; and a
\* step of any command that is not a reset with --yes removes no task.
C27_TasksRemovedOnlyByConfirmedReset ==
  /\ [](/\ delete_all_tasks(db).db.rows = {}
        /\ delete_all_tasks(db).ret = Cardinality(db.rows))
  /\ [][/\ \/ db' = db
           \/ \A delete_outputs \in BOOLEAN, unsafe_target \in BOOLEAN :
                ~_run_reset_command(FALSE, delete_outputs, unsafe_target)
        /\ \/ db'.rows = {}
           \/ \A delete_outputs \in BOOLEAN, unsafe_target \in BOOLEAN :
                ~_run_reset_command(TRUE, delete_outputs, unsafe_target)
        /\ \/ RowIds(db.rows) \subseteq RowIds(db'.rows)
           \/ \E delete_outputs \in BOOLEAN, unsafe_target \in BOOLEAN :
                _run_reset_command(TRUE, delete_outputs, unsafe_target)]_vars

\* A reset has emptied a store that held a task a run loop was working on.
C27_Witness ==
  /\ db.table
  /\ db.rows = {}
  /\ ever_assigned # {}
  /\ run_cmd.pc = "process"

\* C28: fetch_next_pending_task changes nothing in the store.  A call leaves
\* every row as it was, the task it returns is a row of the store that is
\* still Pending after the call, and a call that follows another one
\* directly returns what that one returned.
C28_FetchChangesNothing ==
  [][last_call'.op = "fetch_next_pending_task" =>
       /\ db' = db
       /\ last_call'.ret # NULL =>
            /\ last_call'.ret[1] \in db'.rows
            /\ last_call'.ret[1].status = TASK_STATUS_PENDING
       /\ last_call.op = "fetch_next_pending_task" =>
            last_call'.ret = last_call.ret]_vars

\* A fetch has returned task 2 of a store whose task 1 is Completed and
\* whose task 3 is Pending too.
C28_Witness ==
  /\ last_call.op = "fetch_next_pending_task"
  /\ last_call.ret # NULL
  /\ last_call.ret[1].task_id = 2
  /\ \E r \in db.rows : r.task_id = 1 /\ r.status = TASK_STATUS_COMPLETED
  /\ \E r \in db.rows : r.task_id = 3 /\ r.status = TASK_STATUS_PENDING

\* The fields of a row that are given at enqueue.
WriteOnceFields ==
  {"task_id", "task_kind", "source_path", "pdf_page_index", "pdf_total_pages",
   "created_unix_timestamp_seconds"}

MarkOps == {"mark_task_running", "mark_task_completed", "mark_task_failed"}

\* C29: a mark_task_running, mark_task_completed or mark_task_failed call
\* changes only the status, output_markdown_path and error_message of the
\* task whose id it is given.  The call adds and removes no row, leaves the
\* rows of all other ids as they were, and no call of the store ever changes
\* the kind, source_path, pdf_page_index, pdf_total_pages or created
\* timestamp a row was enqueued with.
C29_MarkCallsChangeOnlyTheirTask ==
  [][/\ \A r \in db.rows : \A q \in db'.rows :
          q.task_id = r.task_id =>
            \A f \in WriteOnceFields : q[f] = r[f]
     /\ last_call'.op \in MarkOps =>
          /\ RowIds(db'.rows) = RowIds(db.rows)
          /\ Cardinality(db'.rows) = Cardinality(db.rows)
          /\ db'.seq = db.seq
          /\ \E task_id \in TaskIds :
               \A r \in db.rows : r.task_id # task_id => r \in db'.rows]_vars

\* A mark call has changed task 2 of three: tasks 1 and 3 are still Pending.
C29_Witness ==
  /\ last_call.op \in MarkOps
  /\ Cardinality(db.rows) = 3
  /\ \E r \in db.rows : r.task_id = 2 /\ r.status # TASK_STATUS_PENDING
  /\ \A r \in db.rows : r.task_id # 2 => r.status = TASK_STATUS_PENDING

\* C30: initialize is idempotent.  On every store the commands reach that
\* exists already, initialize gives the store back as it is, rows and id
\* sequence included, and calling it twice is calling it once; so the start
\* of a status or run command leaves every task and the id sequence as they
\* were, and the start of an enqueue command keeps every task there was.
C30_InitializeIsIdempotent ==
  /\ [](/\ db.table => initialize(db) = db
        /\ initialize(initialize(db)) = initialize(db))
  /\ [][/\ StatusCommand => (db'.rows = db.rows /\ db'.seq = db.seq)
        /\ (run_cmd.pc \in {"idle", "done", "aborted"} /\ run_cmd'.pc = "fetch")
             => (db'.rows = db.rows /\ db'.seq = db.seq)
        /\ (enqueue_cmd.pc = "idle" /\ enqueue_cmd' # enqueue_cmd)
             => (db.rows \subseteq db'.rows /\ db'.seq >= db.seq)]_vars

\* A run command has started on a store that holds a Completed and a
\* Pending task.
C30_Witness ==
  /\ run_cmd.pc = "fetch"
  /\ run_cmd.processed_tasks_count = 0
  /\ run_cmd.failed_tasks_count = 0
  /\ \E r \in db.rows : r.status = TASK_STATUS_COMPLETED
  /\ \E r \in db.rows : r.status = TASK_STATUS_PENDING

\* The first line after the opening line 1 that is a fence line, not
\* indented, of the character of line 1, whatever the length of its run;
\* 0 when there is none.
ClosingLine(lines) ==
  LET closing == {i \in 2..Len(lines) :
                    /\ IsFenceLine(lines[i])
                    /\ FenceCharOf(lines[i][1]) = FenceCharOf(lines[1][1])}
  IN IF closing = {} THEN 0 ELSE CHOOSE i \in closing : \A j \in closing : i <= j

\* C31: an open fence is closed only by a later fence line that is not
\* indented and is of the same character, whatever the length of its run.
\* In dollar mode a text whose first line opens a fence is emitted unchanged
\* up to and including that closing line, or to its end when there is none:
\* fence lines of the other character and indented fence-like lines in
\* between do not close the fence, and a closing line with fewer or more
\* marks than the opening line does.  The text after the closing line is
\* converted as a text of its own.
C31_FenceClosedBySameCharacterOnly ==
  (/\ converted_text # NULL
   /\ converted_text[1].math_delimiter_style = MATH_DELIMITER_STYLE_DOLLAR
   /\ markdown_text # <<>>
   /\ IsFenceLine(splitlines(markdown_text)[1])) =>
    LET lines == splitlines(markdown_text)
        k == ClosingLine(lines)
    IN IF k = 0
       THEN converted_text[1].text = markdown_text
       ELSE converted_text[1].text =
              join(<<>>, SubSeq(lines, 1, k))
                \o WithFencedBlocksKept(SubSeq(lines, k + 1, Len(lines)), "", <<>>)

\* The row of task_id in the store d is Running.
IsRunningIn(d, task_id) ==
  \E r \in d.rows : r.task_id = task_id /\ r.status = TASK_STATUS_RUNNING

\* C32: with two processing loops on the same store nothing in the store
\* prevents double processing.  A fetch by either loop changes no row, so
\* the task it returned is still what the next fetch returns, by whichever
\* loop; and a loop that marks a task which the other loop has already
\* marked Running is not refused: the store is left as it was and the loop
\* goes on to process the task.
C32_NothingPreventsDoubleProcessing ==
  [][/\ (run_cmd.pc = "fetch" /\ run_cmd'.pc = "mark") =>
          (db' = db /\ fetch_next_pending_task(db') = run_cmd'.next_task)
     /\ (other_run_cmd.pc = "fetch" /\ other_run_cmd'.pc = "mark") =>
          (db' = db /\ fetch_next_pending_task(db') = other_run_cmd'.next_task)
     /\ (run_cmd.pc = "mark" /\ run_cmd' # run_cmd
           /\ IsRunningIn(db, run_cmd.next_task[1].task_id)) =>
          (db' = db /\ run_cmd'.pc = "process")
     /\ (other_run_cmd.pc = "mark" /\ other_run_cmd' # other_run_cmd
           /\ IsRunningIn(db, other_run_cmd.next_task[1].task_id)) =>
          (db' = db /\ other_run_cmd'.pc = "process")]_vars

\* Both loops fetched the same Pending task before either marked it, both
\* marked it Running and both are processing it.
C32_Witness ==
  /\ run_cmd.pc = "process"
  /\ other_run_cmd.pc = "process"
  /\ run_cmd.next_task = other_run_cmd.next_task
  /\ run_cmd.next_task[1].status = TASK_STATUS_PENDING
  /\ IsRunningIn(db, run_cmd.next_task[1].task_id)
  /\ \E i, j \in 1..Len(running_log) :
       i # j /\ running_log[i] = running_log[j]
            /\ running_log[i] = run_cmd.next_task[1].task_id

\* The rows left Running by a run that is gone: Running, and not the task
\* the loop under way has marked and is processing.
StaleRunningRows ==
  {r \in db.rows :
     /\ r.status = TASK_STATUS_RUNNING
     /\ ~(run_cmd.pc = "process" /\ run_cmd.next_task[1].task_id = r.task_id)}

\* C33: a task left Running by a run that crashed is never returned by
\* fetch_next_pending_task and never changed by a later run: its row stays
\* as it is, Running with null output path and null error, until
\* delete_all_tasks removes it; and a later run still terminates, with no
\* Pending task left when its loop ends.
C33_StaleRunningTaskIsNeverResumed ==
  /\ [][\A r \in StaleRunningRows :
          /\ r.output_markdown_path = NULL
          /\ r.error_message = NULL
          /\ fetch_next_pending_task(db) # Some(r)
          /\ \/ r \in db'.rows
             \/ db' = delete_all_tasks(initialize(db)).db]_vars
  /\ [](run_cmd.pc = "merge" => PendingRows = {})
  /\ ((StaleRunningRows # {} /\ run_cmd.pc \in RunLoopPcs)
        ~> (run_cmd.pc \notin RunLoopPcs))

\* A task was left Running by a crashed run, and a later run has ended
\* normally after completing a task enqueued after it, with nothing Pending.
C33_Witness ==
  /\ run_cmd.pc = "done"
  /\ PendingRows = {}
  /\ \E r \in StaleRunningRows :
       \E q \in db.rows : q.task_id > r.task_id /\ q.status = TASK_STATUS_COMPLETED

\* C34: the dollar-mode delimiter transform is reversible: distinct input
\* texts have distinct output texts.  The instance checked pairs the input
\* with its own output taken as an input: when the transform changed the
\* text, the changed text is a distinct input and must not be transformed to
\* the same output.
C34_DollarTransformIsInjective ==
  (/\ converted_text # NULL
   /\ converted_text[1].math_delimiter_style = MATH_DELIMITER_STYLE_DOLLAR
   /\ converted_text[1].text # markdown_text) =>
    _convert_latex_math_delimiters_to_dollar(converted_text[1].text)
      # converted_text[1].text

\* The rows a step added to the store, in task_id order.
AddedInIdOrder == OrderByTaskIdAsc(db'.rows \ db.rows)

HeldTaskIsGone ==
  /\ run_cmd.pc \in {"mark", "process"}
  /\ run_cmd.next_task[1].task_id \notin RowIds(db.rows)

====
